---- MODULE Spec2Model ----
(***************************************************************************)
(* MUTESOL (StackSave) backend: the wallet-signature middleware of         *)
(* src/src/middleware/authMiddleware.js, the routing of src/index.js and   *)
(* the route handlers of src/src/routes/users.js, src/src/routes/goals.js  *)
(* and the transactions router (src/unnamed/part_002), with the            *)
(* transaction builders of src/src/utils/transactions.js.                  *)
(*                                                                         *)
(* Spec: one request is in flight at a time.  The ledger is the             *)
(* environment: every account read returns any value of a bounded set, so  *)
(* two reads of one request may see different ledger states.               *)
(* RaceSpec: concurrent POST /goals/create requests against a ledger that  *)
(* keeps the user accounts and the goal accounts.                          *)
(***************************************************************************)
EXTENDS Integers, Sequences, FiniteSets, TLC

VARIABLES
    simpleAuth,   \* process.env.SIMPLE_AUTH === 'true'
    faucetEnabled,\* process.env.FAUCET_ENABLED === 'true'
    now,          \* Date.now(), in milliseconds
    pc,           \* "idle" | "received" | "authed" | "routed" | "done"
    hdr,          \* the four auth headers verifyWalletSignature reads
    req,          \* route, req.params.address as the router sees it, req.body.walletAddress
    mw,           \* what verifyWalletSignature did with the request
    authenticatedWallet, \* req.authenticatedWallet
    body,         \* the body / path fields the handler reads
    res,          \* the response of the handler
    tx,           \* the transaction a builder returned to the handler
    reads,        \* the ledger reads made for the request, in order
    faucetServed, \* history: the wallet an earlier request last got a ClaimFaucet for
    ledgerUsers,  \* the UserAccount the ledger holds for each wallet
    ledgerGoals,  \* the goal accounts that exist on the ledger
    inflight,     \* concurrent POST /goals/create requests, each at its own await
    currencies,   \* the array getAllCurrencies is filling
    initialized,  \* blockchainService.initialized
    server,       \* "starting" | "listening" | "exited"
    dbReachable,  \* the PostgreSQL server answers
    dbConnected,  \* what db.testConnection() returned to startServer
    dbLog,        \* the statements sent to the database for the call under way
    dbTransactions, \* the calls of db.transaction, each at its own await
    usersTable,   \* the rows of the table users
    goalsTable,   \* the rows of the table goals
    dbNow,        \* NOW() of the database
    lastCached,   \* history: the last call of cacheUser or cacheGoal that returned a row
    captured      \* history: the headers seen on the wire of requests that were passed on

\* the state of the one-request-at-a-time specification
requestVars == <<simpleAuth, faucetEnabled, now, pc, hdr, req, mw,
                 authenticatedWallet, body, res, tx, reads, faucetServed>>

\* the state the concurrent create-goal specification adds
raceVars == <<ledgerUsers, ledgerGoals, inflight>>

\* the state of the service calls that run outside the three routers' handlers
\* the process and its database connection
appVars == <<initialized, server, dbReachable, dbConnected, dbLog>>

\* the relational cache
cacheVars == <<usersTable, goalsTable, dbNow, lastCached>>

serviceVars == <<currencies, captured, appVars, dbTransactions, cacheVars>>

vars == <<simpleAuth, faucetEnabled, now, pc, hdr, req, mw,
          authenticatedWallet, body, res, tx, reads, faucetServed,
          ledgerUsers, ledgerGoals, inflight, serviceVars>>

-----------------------------------------------------------------------------
(* Bounds of the model *)

MaxTotalGoals == 6

-----------------------------------------------------------------------------
(* JavaScript values *)

Undefined == "<undefined>"

None == [def |-> FALSE, v |-> <<>>]

Some(s) == [def |-> TRUE, v |-> s]

\* !x for a header or body string: undefined and "" are falsy
Falsy(x) == x = Undefined \/ x = ""

\* !x for a header held as a character sequence
FalsyStr(h) == ~h.def \/ h.v = <<>>

Digits == <<"0", "1", "2", "3", "4", "5", "6", "7", "8", "9">>

HexLetters == <<"a", "b", "c", "d", "e", "f">>

IsDigit(c) == \E i \in 1..10 : Digits[i] = c

DigitVal(c) == (CHOOSE i \in 1..10 : Digits[i] = c) - 1

IsHexDigit(c) == IsDigit(c) \/ \E i \in 1..6 : HexLetters[i] = c

HexVal(c) == IF IsDigit(c) THEN DigitVal(c)
             ELSE 9 + (CHOOSE i \in 1..6 : HexLetters[i] = c)

RECURSIVE StripLeft(_)
StripLeft(s) == IF s # <<>> /\ Head(s) = " " THEN StripLeft(Tail(s)) ELSE s

\* the longest prefix of s made of digits of the radix, as a number; none: -1
RECURSIVE PrefixValue(_, _, _)
PrefixValue(s, radix, acc) ==
    IF s = <<>> THEN acc
    ELSE LET c == Head(s)
             ok == IF radix = 16 THEN IsHexDigit(c) ELSE IsDigit(c)
         IN IF ~ok THEN acc
            ELSE PrefixValue(Tail(s), radix,
                             (IF acc < 0 THEN 0 ELSE acc) * radix + HexVal(c))

NaN == [nan |-> TRUE, val |-> 0]

Num(n) == [nan |-> FALSE, val |-> n]

\* parseInt(string) with no radix: leading white space, a sign, a 0x prefix
\* (radix 16), then the longest prefix of digits; NaN when there is none
parseInt(s) ==
    LET t == StripLeft(s)
        neg == t # <<>> /\ Head(t) = "-"
        u == IF t # <<>> /\ Head(t) \in {"-", "+"} THEN Tail(t) ELSE t
        hex == Len(u) >= 2 /\ u[1] = "0" /\ u[2] \in {"x", "X"}
        v == IF hex THEN PrefixValue(Tail(Tail(u)), 16, -1)
             ELSE PrefixValue(u, 10, -1)
    IN IF v < 0 THEN NaN ELSE Num(IF neg THEN 0 - v ELSE v)

isNaN(x) == x.nan

\* Number.prototype.toString / BN.toString of an integer: its decimal digits
RECURSIVE DecDigits(_)
DecDigits(n) == IF n < 10 THEN <<Digits[n + 1]>>
                ELSE Append(DecDigits(n \div 10), Digits[(n % 10) + 1])

DecStr(n) == IF n < 0 THEN <<"-">> \o DecDigits(0 - n) ELSE DecDigits(n)

Abs(x) == IF x < 0 THEN 0 - x ELSE x

-----------------------------------------------------------------------------
(* Wallet addresses and signatures *)

WalletA == "WalletA"

WalletB == "WalletB"

BadAddress == "not-a-public-key"

Wallets == {WalletA, WalletB}

\* the base token mints of the two currencies
BaseTokenMints == <<"MintUSDC", "MintIDRX">>

\* new PublicKey(address) does not throw: the string is the base-58 form of 32 bytes
PublicKeyOk(address) == address \in Wallets \/ \E i \in 1..2 : BaseTokenMints[i] = address

crypto_sign_BYTES == 64

NoSig == [kind |-> "undefined", len |-> 0, signer |-> Undefined, msg |-> Undefined]

\* a header that is not base-58 text
NotBase58Sig == [kind |-> "notBase58", len |-> 0, signer |-> Undefined, msg |-> Undefined]

\* base-58 text of n bytes that no key signed
GarbageSig(n) == [kind |-> "bytes", len |-> n, signer |-> Undefined, msg |-> Undefined]

\* the detached ed25519 signature of message m under the key of wallet w
SignatureOf(w, m) == [kind |-> "bytes", len |-> crypto_sign_BYTES, signer |-> w, msg |-> m]

\* bs58.decode(signature) does not throw
Bs58DecodeOk(sig) == sig.kind = "bytes"

\* nacl.sign.detached.verify throws 'bad signature size'
NaclThrows(sig) == sig.len # crypto_sign_BYTES

\* nacl.sign.detached.verify(messageBytes, signatureBytes, publicKeyBytes)
NaclVerify(message, sig, wallet) == sig.signer = wallet /\ sig.msg = message

-----------------------------------------------------------------------------
(* Routing: src/index.js mounts the three routers behind the middleware *)

PostRoutes == {"users.initialize", "goals.create", "tx.deposit", "tx.withdraw", "tx.faucet"}

\* the GET routes whose path holds :address
AddressRoutes == {"users.get", "users.stats", "users.balance",
                  "goals.user", "goals.get", "tx.history"}

Routes == PostRoutes \cup AddressRoutes

\* req.params.address as verifyWalletSignature sees it: the middleware is mounted
\* with app.use("/api/users", ...), app.use("/api/goals", ...) and
\* app.use("/api/transactions", ...); a mount path holds no ":address" segment,
\* so req.params is {} there.  Only the router's own layer, which runs after
\* next(), fills req.params.address.
MountParamsAddress(r) == Undefined

-----------------------------------------------------------------------------
(* verifyWalletSignature *)

fiveMinutes == 5 * 60 * 1000

\* a human-readable message; the model does not keep its text
SomeMessage == "<message>"

\* res.status(status).json({ success: false, error }): a body with no message
RejectWithoutMessage(status, error) ==
    [status |-> status, error |-> error, message |-> Undefined, next |-> FALSE,
     wallet |-> Undefined]

\* res.status(status).json({ success: false, error, message })
Reject(status, error) ==
    [status |-> status, error |-> error, message |-> SomeMessage, next |-> FALSE,
     wallet |-> Undefined]

\* req.authenticatedWallet = walletAddress; next()
Accept(walletAddress) ==
    [status |-> 0, error |-> "", message |-> Undefined, next |-> TRUE,
     wallet |-> walletAddress]

MissingSimpleHeaders(h) == Falsy(h.wallet) \/ FalsyStr(h.timestamp)

MissingFullHeaders(h) ==
    Falsy(h.wallet) \/ h.signature.kind = "undefined"
        \/ Falsy(h.message) \/ FalsyStr(h.timestamp)

\* a faulty variant: the edge of the window is rejected
TimestampExpiredAtEdge(currentTimestamp, requestTimestamp) ==
    Abs(currentTimestamp - requestTimestamp) >= fiveMinutes

\* Math.abs(currentTimestamp - requestTimestamp) > fiveMinutes
TimestampExpired(currentTimestamp, requestTimestamp) ==
    Abs(currentTimestamp - requestTimestamp) > fiveMinutes

\* the wallet named in the URL or in the body differs from the header wallet
WalletMismatch(h, r) ==
    \/ ~Falsy(MountParamsAddress(r)) /\ MountParamsAddress(r) # h.wallet
    \/ ~Falsy(r.bodyWallet) /\ r.bodyWallet # h.wallet

\* a faulty variant: the wallet header is not validated as a public key
SimpleAuthUnvalidated(h) ==
    IF MissingSimpleHeaders(h) THEN Reject(401, "Missing authentication headers")
    ELSE IF isNaN(parseInt(h.timestamp.v))
        THEN RejectWithoutMessage(401, "Invalid timestamp")
    ELSE Accept(h.wallet)

SimpleAuth(h) ==
    IF MissingSimpleHeaders(h) THEN Reject(401, "Missing authentication headers")
    ELSE IF ~PublicKeyOk(h.wallet) THEN Reject(401, "Invalid wallet address")
    \* authMiddleware.js 49-52: this body holds success and error only
    ELSE IF isNaN(parseInt(h.timestamp.v))
        THEN RejectWithoutMessage(401, "Invalid timestamp")
    ELSE Accept(h.wallet)

FullAuth(h, r, currentTimestamp) ==
    IF MissingFullHeaders(h) THEN Reject(401, "Missing authentication headers")
    ELSE IF isNaN(parseInt(h.timestamp.v)) THEN Reject(401, "Invalid timestamp")
    ELSE IF TimestampExpired(currentTimestamp, parseInt(h.timestamp.v).val)
        THEN Reject(401, "Timestamp expired")
    ELSE IF ~PublicKeyOk(h.wallet) THEN Reject(401, "Invalid wallet address")
    ELSE IF ~Bs58DecodeOk(h.signature) THEN Reject(401, "Invalid signature format")
    \* nacl throws inside the outer try: the catch answers 500
    ELSE IF NaclThrows(h.signature) THEN Reject(500, "Authentication failed")
    ELSE IF ~NaclVerify(h.message, h.signature, h.wallet)
        THEN Reject(401, "Invalid signature")
    ELSE IF WalletMismatch(h, r) THEN Reject(403, "Forbidden")
    ELSE Accept(h.wallet)

verifyWalletSignature(h, r, simpleAuthMode, currentTimestamp) ==
    IF simpleAuthMode THEN SimpleAuth(h) ELSE FullAuth(h, r, currentTimestamp)

-----------------------------------------------------------------------------
(* The requests a client can send *)

\* Date.now() when the request is served
Now0 == 10000000

WalletHeaders == {Undefined, BadAddress} \cup Wallets

Messages == {"m1", "m2"}

MessageHeaders == {Undefined} \cup Messages

SignatureHeaders ==
    {NoSig, NotBase58Sig, GarbageSig(10)} \cup {SignatureOf(w, "m1") : w \in Wallets}

\* X-Timestamp: absent, empty, not a number, and epoch milliseconds around the
\* edges of the five-minute window (5 min 1 s, 5 min 1 ms, 5 min, 4 min 59 s ago;
\* now; 5 min and 5 min 1 ms ahead), one of them followed by text
TimestampHeaders(t) ==
    {None, Some(<<>>), Some(<<"a", "b", "c">>), Some(DecStr(t) \o <<"a", "b", "c">>)}
        \cup {Some(DecStr(t + d)) :
                d \in {0 - fiveMinutes - 1000, 0 - fiveMinutes - 1, 0 - fiveMinutes,
                       1000 - fiveMinutes, 0, fiveMinutes, fiveMinutes + 1}}

Headers(t) ==
    [wallet : WalletHeaders, signature : SignatureHeaders,
     message : MessageHeaders, timestamp : TimestampHeaders(t)]

Requests ==
    [route : PostRoutes, address : {Undefined}, bodyWallet : {Undefined} \cup Wallets]
        \cup [route : AddressRoutes, address : Wallets, bodyWallet : {Undefined}]

NoHdr == [wallet |-> Undefined, signature |-> NoSig, message |-> Undefined,
          timestamp |-> None]

NoReq == [route |-> "", address |-> Undefined, bodyWallet |-> Undefined]

NoMw == [status |-> 0, error |-> "", message |-> Undefined, next |-> FALSE,
         wallet |-> Undefined]

NoBody == [none |-> TRUE]

\* the details of a 200 response the model keeps
NoInfo == [kind |-> "none"]

NoRes == [status |-> 0, error |-> "", info |-> NoInfo]

NoTx == [kind |-> "none"]

-----------------------------------------------------------------------------
(* Token amounts.  An amount on the ledger is an unsigned 64-bit integer,    *)
(* too wide for the integers of the checker: it is held as its digits in     *)
(* base 2^LimbBits, least significant first, with no leading zero digit      *)
(* (0 is the empty sequence).  A JavaScript Number is an IEEE-754 double     *)
(* with 53 significant bits; the Numbers of the amount arithmetic hold       *)
(* integers and are held the same way.                                       *)

LimbBits == 13

Limb == 2 ^ LimbBits

Limb_(a, i) == IF i >= 1 /\ i <= Len(a) THEN a[i] ELSE 0

RECURSIVE Trim(_)
Trim(a) == IF a # <<>> /\ a[Len(a)] = 0 THEN Trim(SubSeq(a, 1, Len(a) - 1)) ELSE a

\* the digits of raw (each >= 0, below 2^31) with the carries passed on
RECURSIVE Carry(_, _)
Carry(raw, c) ==
    IF raw = <<>> THEN (IF c = 0 THEN <<>> ELSE Carry(<<c>>, 0))
    ELSE <<(Head(raw) + c) % Limb>> \o Carry(Tail(raw), (Head(raw) + c) \div Limb)

Big(n) == Trim(Carry(<<n>>, 0))

MaxOf(x, y) == IF x > y THEN x ELSE y

BigAdd(a, b) ==
    Trim(Carry([i \in 1..MaxOf(Len(a), Len(b)) |-> Limb_(a, i) + Limb_(b, i)], 0))

\* a - b for a >= b
RECURSIVE Borrow(_, _)
Borrow(raw, c) ==
    IF raw = <<>> THEN <<>>
    ELSE <<(Head(raw) - c + Limb) % Limb>>
            \o Borrow(Tail(raw), IF Head(raw) - c < 0 THEN 1 ELSE 0)

BigSub(a, b) == Trim(Borrow([i \in 1..Len(a) |-> Limb_(a, i) - Limb_(b, i)], 0))

\* digit k of the product before the carries: the sum of a[i] * b[k + 1 - i]
RECURSIVE Convolve(_, _, _, _)
Convolve(a, b, k, i) ==
    IF i > Len(a) THEN 0
    ELSE Limb_(a, i) * Limb_(b, k + 1 - i) + Convolve(a, b, k, i + 1)

BigMul(a, b) ==
    IF a = <<>> \/ b = <<>> THEN <<>>
    ELSE Trim(Carry([k \in 1..(Len(a) + Len(b)) |-> Convolve(a, b, k, 1)], 0))

\* a < b, compared from the most significant digit
RECURSIVE BigLess(_, _)
BigLess(a, b) ==
    IF Len(a) # Len(b) THEN Len(a) < Len(b)
    ELSE IF a = <<>> THEN FALSE
    ELSE IF a[Len(a)] # b[Len(b)] THEN a[Len(a)] < b[Len(b)]
    ELSE BigLess(SubSeq(a, 1, Len(a) - 1), SubSeq(b, 1, Len(b) - 1))

BigLeq(a, b) == a = b \/ BigLess(a, b)

\* the number of binary digits of a digit, and of a number
RECURSIVE LimbLength(_)
LimbLength(d) == IF d = 0 THEN 0 ELSE 1 + LimbLength(d \div 2)

BitLength(a) ==
    IF a = <<>> THEN 0 ELSE LimbBits * (Len(a) - 1) + LimbLength(a[Len(a)])

\* binary digit i of a, i = 1 the least significant
BitAt(a, i) == (Limb_(a, ((i - 1) \div LimbBits) + 1) \div (2 ^ ((i - 1) % LimbBits))) % 2

\* floor(a / 2^s)
ShiftRight(a, s) ==
    LET w == s \div LimbBits
        r == s % LimbBits
    IN Trim([j \in 1..MaxOf(Len(a) - w, 0) |->
                (Limb_(a, w + j) \div (2 ^ r))
                    + (Limb_(a, w + j + 1) % (2 ^ r)) * (2 ^ (LimbBits - r))])

\* a * 2^s
ShiftLeft(a, s) ==
    LET w == s \div LimbBits
        r == s % LimbBits
    IN IF a = <<>> THEN <<>>
       ELSE Trim([j \in 1..(Len(a) + w + 1) |->
                    (Limb_(a, j - w) % (2 ^ (LimbBits - r))) * (2 ^ r)
                        + (Limb_(a, j - w - 1) \div (2 ^ (LimbBits - r)))])

MANTISSA_BITS == 53

\* a / 2^s rounded to the nearest integer, ties to the even one
RoundShift(a, s) ==
    IF s = 0 THEN a
    ELSE LET q == ShiftRight(a, s)
             up == BitAt(a, s) = 1
                     /\ (BitAt(q, 1) = 1 \/ \E i \in 1..(s - 1) : BitAt(a, i) = 1)
         IN IF up THEN BigAdd(q, Big(1)) ELSE q

\* how many low binary digits a value of this length loses in a double
LostBits(a) == MaxOf(BitLength(a) - MANTISSA_BITS, 0)

\* parseInt(bn.toString()): the double nearest to the integer, itself an integer
ToDouble(a) == ShiftLeft(RoundShift(a, LostBits(a)), LostBits(a))

\* x + y and x - y of two Numbers holding integers
DoubleAdd(x, y) == ToDouble(BigAdd(x, y))

DoubleSub(x, y) == ToDouble(BigSub(x, y))

\* the literal 0.02 is the double 0x3F947AE147AE147B = 0x147AE147AE147B * 2^-58
PENALTY_MANTISSA == BigAdd(ShiftLeft(Big(1342177), 32), Big(1202590843))

PENALTY_EXPONENT == 58

\* Math.floor(x * 0.02): the exact product, rounded to 53 bits, then floored
FloorTimesPenaltyRate(x) ==
    LET p == BigMul(x, PENALTY_MANTISSA)
        s == LostBits(p)
        q == RoundShift(p, s)
    IN IF s >= PENALTY_EXPONENT THEN ShiftLeft(q, s - PENALTY_EXPONENT)
       ELSE ShiftRight(q, PENALTY_EXPONENT - s)

-----------------------------------------------------------------------------
(* The ledger, as the handlers read it *)

\* the outcome of one account fetch or RPC call: the account, "Account does not
\* exist", or any other failure (RPC unreachable, timeout)
Fetched(v) == [st |-> "ok", v |-> v]

Missing(v) == [st |-> "missing", v |-> v]

Failed(v) == [st |-> "error", v |-> v]

Outcomes(values, dummy) ==
    {Fetched(v) : v \in values} \cup {Missing(dummy), Failed(dummy)}

\* an entry of the read log: which account, of which wallet, and how it ended
ReadOf(account, wallet, f) ==
    [account |-> account, wallet |-> wallet, st |-> f.st, v |-> f.v]

ACTIVE_GOAL_CEILING == 5

NoUser == [totalGoalsCreated |-> 0, activeGoals |-> 0]

\* UserAccount values around the goal ceiling
UserAccounts ==
    {u \in [totalGoalsCreated : (MaxTotalGoals - 1)..MaxTotalGoals,
            activeGoals : (ACTIVE_GOAL_CEILING - 1)..MaxTotalGoals] :
        u.activeGoals <= u.totalGoalsCreated}

UserFetches == Outcomes(UserAccounts, NoUser)

\* an RPC call with no value the model keeps (getLatestBlockhash, getBalance,
\* the goal list of getUserGoals, getGlobalState, getFaucetConfig)
RpcOutcomes == {Fetched(0), Failed(0)}

RpcOrMissing == {Fetched(0), Missing(0), Failed(0)}

\* getUserAccount, getGoalAccount, getFaucetConfig, getUserFaucetAccount: the PDA
\* derivation throws on a malformed wallet, a fetch failure other than
\* "Account does not exist" is rethrown, a missing account gives null
ReadThrows(wallet, f) == ~PublicKeyOk(wallet) \/ f.st = "error"

ReadNull(wallet, f) == PublicKeyOk(wallet) /\ f.st = "missing"

\* getCurrencyConfig, getGlobalState: every failure is rethrown, a missing
\* account included
StrictReadThrows(f) == f.st # "ok"

-----------------------------------------------------------------------------
(* What a handler leaves behind *)

Outcome(status, error, t, rd) ==
    [res |-> [status |-> status, error |-> error, message |-> SomeMessage,
              info |-> NoInfo],
     tx |-> t, reads |-> rd]

\* res.json({ success: true, ... })
Success(info, t, rd) ==
    [res |-> [status |-> 200, error |-> "", info |-> info], tx |-> t, reads |-> rd]

\* catch (error) { res.status(500) } of every handler
InternalError(t, rd) == Outcome(500, "Internal server error", t, rd)

NoFields == [none |-> TRUE]

\* the instruction's user account and tx.feePayer are both userPubkey
Transaction(kind, userWallet, fields) ==
    [kind |-> kind, feePayer |-> userWallet, user |-> userWallet, fields |-> fields]

-----------------------------------------------------------------------------
(* src/src/routes/users.js *)

\* buildInitializeUserTx: the instruction, then getLatestBlockhash
buildInitializeUserTx(userWallet, bh) ==
    IF ~PublicKeyOk(userWallet) \/ bh.st # "ok" THEN NoTx
    ELSE Transaction("InitializeUser", userWallet, NoFields)

\* POST /api/users/initialize
usersInitialize(walletAddress, ua, bh) ==
    IF Falsy(walletAddress) THEN Outcome(400, "Missing required field", NoTx, <<>>)
    ELSE LET r1 == <<ReadOf("user", walletAddress, ua)>>
             r2 == Append(r1, ReadOf("blockhash", Undefined, bh))
             t == buildInitializeUserTx(walletAddress, bh)
         IN IF ReadThrows(walletAddress, ua) THEN InternalError(NoTx, r1)
            ELSE IF ~ReadNull(walletAddress, ua)
                THEN Outcome(400, "User already exists", NoTx, r1)
            ELSE IF t = NoTx THEN InternalError(NoTx, r2)
            ELSE Outcome(200, "", t, r2)

\* GET /api/users/:address
usersGet(address, ua) ==
    LET r1 == <<ReadOf("user", address, ua)>>
    IN IF ReadThrows(address, ua) THEN InternalError(NoTx, r1)
       ELSE IF ReadNull(address, ua) THEN Outcome(404, "User not found", NoTx, r1)
       ELSE Outcome(200, "", NoTx, r1)

\* GET /api/users/:address/stats: the user account, then getUserGoals (the user
\* account again and every goal below totalGoalsCreated), taken as one read
usersStats(address, ua, goals) ==
    LET r1 == <<ReadOf("user", address, ua)>>
        r2 == Append(r1, ReadOf("userGoals", address, goals))
    IN IF ReadThrows(address, ua) THEN InternalError(NoTx, r1)
       ELSE IF ReadNull(address, ua) THEN Outcome(404, "User not found", NoTx, r1)
       ELSE IF ReadThrows(address, goals) THEN InternalError(NoTx, r2)
       ELSE Outcome(200, "", NoTx, r2)

\* GET /api/users/:address/balance
usersBalance(address, bal) ==
    LET r1 == <<ReadOf("balance", address, bal)>>
    IN IF ReadThrows(address, bal) THEN InternalError(NoTx, r1)
       ELSE Outcome(200, "", NoTx, r1)

-----------------------------------------------------------------------------
(* Goal accounts and request bodies *)

\* Math.floor(Date.now() / 1000)
NowSeconds(t) == t \div 1000

\* a numeric body field that was not sent
UndefinedNum == 0 - 1

\* !x for a numeric body field: undefined and 0 are falsy
FalsyNum(n) == n = UndefinedNum \/ n = 0

\* JSON true and false, and a flag that was not sent
JsonTrue == "true"

JsonFalse == "false"

Truthy(flag) == flag = JsonTrue

Null == "<null>"

CURRENCY_IDS == [USDC |-> 0, IDRX |-> 1]

\* a currency id no CurrencyConfig account exists for
UnknownCurrency == 2

\* goal balances: empty, the smallest unit, 9950 (10000 with 50 of interest) and
\* 2^53 + 1, the first integer a double cannot hold
GoalAmounts == {Big(0), Big(1), Big(9950), BigAdd(ShiftLeft(Big(1), MANTISSA_BITS), Big(1))}

GoalInterests == {Big(0), Big(50)}

GoalStatuses == {"active", "completed", "withdrawn"}

\* deadlines one second before, at, and one second after the current second
GoalDeadlines(t) == {NowSeconds(t) - 1, NowSeconds(t), NowSeconds(t) + 1}

NoGoal == [currentAmount |-> <<>>, accruedInterest |-> <<>>, deadline |-> 0,
           status |-> "", currencyId |-> 0]

\* the goals POST /withdraw and GET /:address/:goalIndex are asked about
WithdrawGoals(t) ==
    [currentAmount : GoalAmounts, accruedInterest : GoalInterests,
     deadline : GoalDeadlines(t), status : GoalStatuses, currencyId : {CURRENCY_IDS.USDC}]

\* the goals POST /deposit is asked about
DepositGoals(t) ==
    [currentAmount : {Big(0), Big(9950)}, accruedInterest : {Big(0)},
     deadline : {NowSeconds(t) + 1}, status : GoalStatuses,
     currencyId : {CURRENCY_IDS.USDC, CURRENCY_IDS.IDRX}]

\* the CurrencyConfig fetch: only the two configured currencies can be fetched
CurrencyFetches(currencyId) ==
    IF currencyId \in {CURRENCY_IDS.USDC, CURRENCY_IDS.IDRX} THEN RpcOrMissing
    ELSE {Missing(0), Failed(0)}

\* what a builder hands back: it threw, or it returned a transaction
Thrown(rd) == [ok |-> FALSE, tx |-> NoTx, reads |-> rd, ret |-> NoInfo]

Built(t, rd, ret) == [ok |-> TRUE, tx |-> t, reads |-> rd, ret |-> ret]

-----------------------------------------------------------------------------
(* src/src/routes/goals.js and buildCreateGoalTx *)

NINETY_DAYS == 90 * 24 * 60 * 60

\* a faulty variant: the risk tier is passed on whatever the mode
riskTierEnumOfAnyMode(mode, riskTier) ==
    IF riskTier \in {"low", "medium"} THEN riskTier ELSE "high"

\* riskTierEnum of buildCreateGoalTx: null unless the mode is "pro"
riskTierEnum(mode, riskTier) ==
    IF mode # "pro" THEN Null
    ELSE IF riskTier \in {"low", "medium"} THEN riskTier
    ELSE "high"

\* a faulty variant: the ceiling is one too high
MaxGoalsReachedAbove(userAccount) == userAccount.activeGoals > ACTIVE_GOAL_CEILING

\* userAccount.activeGoals >= 5
MaxGoalsReached(userAccount) == userAccount.activeGoals >= ACTIVE_GOAL_CEILING

\* buildCreateGoalTx: the user account is read again for the goal index, then
\* the instruction is built, then getLatestBlockhash
\* a faulty variant: the index after the one the account holds
goalIndexSkippingOne(userAccount) == userAccount.totalGoalsCreated + 1

\* transactions.js 79: goalIndex = userAccount.totalGoalsCreated
goalIndexOf(userAccount) == userAccount.totalGoalsCreated

\* blockchain.js 124-138: the seeds are "goal", the wallet and the single byte
\* Buffer.from([goalIndex]); the address stands for its seeds
getGoalAccountPDA(userWallet, goalIndex) == <<"goal", userWallet, goalIndex % 256>>

buildCreateGoalTx(p, ua, bh) ==
    LET r1 == <<ReadOf("user", p.userWallet, ua)>>
        r2 == Append(r1, ReadOf("blockhash", Undefined, bh))
        goalIndex == goalIndexOf(ua.v)
        modeEnum == IF p.mode = "lite" THEN "lite" ELSE "pro"
    IN IF ~PublicKeyOk(p.userWallet) THEN Thrown(<<>>)
       ELSE IF ReadThrows(p.userWallet, ua) \/ ReadNull(p.userWallet, ua) THEN Thrown(r1)
       ELSE IF p.mode = "pro" /\ Falsy(p.riskTier) THEN Thrown(r1)
       ELSE IF bh.st # "ok" THEN Thrown(r2)
       ELSE Built(Transaction("CreateGoal", p.userWallet,
                              [goalIndex |-> goalIndex, name |-> p.name,
                               targetAmount |-> p.targetAmount, mode |-> modeEnum,
                               riskTier |-> riskTierEnum(p.mode, p.riskTier),
                               currencyId |-> p.currencyId,
                               deadline |-> p.deadline,
                               goalAccount |-> getGoalAccountPDA(p.userWallet, goalIndex)]),
                  r2, [kind |-> "createGoal", goalIndex |-> goalIndex])

\* a faulty variant: a deadline exactly 90 days ahead is refused as well
DeadlineTooSoonAtEdge(deadline, t) ==
    deadline <= NowSeconds(t) + NINETY_DAYS

\* goals.js 69-71: now = Math.floor(Date.now() / 1000), minDeadline = now + 90
\* days, deadline < minDeadline
DeadlineTooSoon(deadline, t) ==
    LET minDeadline == NowSeconds(t) + NINETY_DAYS
    IN deadline < minDeadline

\* POST /api/goals/create
goalsCreate(b, ua1, ua2, bh, cc, t) ==
    LET w == b.walletAddress
        r1 == <<ReadOf("user", w, ua1)>>
        result == buildCreateGoalTx(
                    [userWallet |-> w, name |-> b.name, targetAmount |-> b.targetAmount,
                     mode |-> b.mode, riskTier |-> b.riskTier,
                     currencyId |-> b.currencyId, deadline |-> b.deadline], ua2, bh)
        r2 == r1 \o result.reads
        r3 == Append(r2, ReadOf("currencyConfig", Undefined, cc))
        goalDetails == [kind |-> "goalCreated", goalIndex |-> result.ret.goalIndex,
                        mode |-> b.mode,
                        riskTier |-> IF b.mode = "pro" THEN b.riskTier ELSE Null]
    IN IF Falsy(w) \/ Falsy(b.name) \/ FalsyNum(b.targetAmount) \/ Falsy(b.mode)
            \/ b.currencyId = UndefinedNum \/ FalsyNum(b.deadline)
        THEN Outcome(400, "Missing required fields", NoTx, <<>>)
       ELSE IF b.mode = "pro" /\ Falsy(b.riskTier)
        THEN Outcome(400, "Missing risk tier", NoTx, <<>>)
       ELSE IF b.mode \notin {"lite", "pro"}
        THEN Outcome(400, "Invalid mode", NoTx, <<>>)
       ELSE IF b.mode = "pro" /\ b.riskTier \notin {"low", "medium", "high"}
        THEN Outcome(400, "Invalid risk tier", NoTx, <<>>)
       ELSE IF ReadThrows(w, ua1) THEN InternalError(NoTx, r1)
       ELSE IF ReadNull(w, ua1) THEN Outcome(400, "User not initialized", NoTx, r1)
       ELSE IF MaxGoalsReached(ua1.v)
        THEN Outcome(400, "Maximum goals reached", NoTx, r1)
       ELSE IF DeadlineTooSoon(b.deadline, t)
        THEN Outcome(400, "Invalid deadline", NoTx, r1)
       ELSE IF ~result.ok THEN InternalError(NoTx, r2)
       \* getCurrencyConfig runs after the transaction was built and serialized
       ELSE IF StrictReadThrows(cc) THEN InternalError(result.tx, r3)
       ELSE Success(goalDetails, result.tx, r3)

\* GET /api/goals/user/:address: getUserGoals reads the user account (absent: no
\* goals) and every goal below totalGoalsCreated, taken as one read
goalsUser(address, goals) ==
    LET r1 == <<ReadOf("userGoals", address, goals)>>
    IN IF ReadThrows(address, goals) THEN InternalError(NoTx, r1)
       ELSE Success([kind |-> "goals"], NoTx, r1)

\* GET /api/goals/:address/:goalIndex
goalsGet(address, goal, t) ==
    LET r1 == <<ReadOf("goal", address, goal)>>
        totalValue == DoubleAdd(ToDouble(goal.v.currentAmount),
                                ToDouble(goal.v.accruedInterest))
        isExpired == goal.v.deadline < NowSeconds(t)
    IN IF ReadThrows(address, goal) THEN InternalError(NoTx, r1)
       ELSE IF ReadNull(address, goal) THEN Outcome(404, "Goal not found", NoTx, r1)
       ELSE Success([kind |-> "goal", totalValue |-> totalValue, isExpired |-> isExpired,
                     canWithdrawWithoutPenalty |-> isExpired], NoTx, r1)

-----------------------------------------------------------------------------
(* src/src/utils/validation.js *)

\* a JSON value sent as an amount, with the text amount.toString() gives
NoAmount == [type |-> "undefined", text |-> <<>>]

NumberAmount(text) == [type |-> "number", text |-> text]

StringAmount(text) == [type |-> "string", text |-> text]

\* !amount: undefined, the number 0 and "" are falsy (the string "0" is not)
FalsyAmount(a) ==
    \/ a.type = "undefined"
    \/ a.type = "number" /\ a.text = <<"0">>
    \/ a.type = "string" /\ a.text = <<>>

\* /^\d+$/.test(amountStr)
AllDigits(text) == text # <<>> /\ \A i \in 1..Len(text) : IsDigit(text[i])

\* BigInt(amountStr) of a digit string, nine digits at a time
RECURSIVE BigOfDigits(_)
BigOfDigits(text) ==
    LET n == Len(text) IN
    IF n <= 9 THEN Big(PrefixValue(text, 10, 0))
    ELSE BigAdd(BigMul(BigOfDigits(SubSeq(text, 1, n - 9)), Big(10 ^ 9)),
                Big(PrefixValue(SubSeq(text, n - 8, n), 10, 0)))

MAX_U64 == BigSub(ShiftLeft(Big(1), 64), Big(1))

validateAmount(amount) ==
    IF amount.type = "undefined" \/ (amount.type = "string" /\ amount.text = <<>>)
        THEN [valid |-> FALSE, error |-> "Amount is required"]
    ELSE IF ~AllDigits(amount.text)
        THEN [valid |-> FALSE, error |-> "Amount must be a positive integer"]
    ELSE IF BigLess(MAX_U64, BigOfDigits(amount.text))
        THEN [valid |-> FALSE, error |-> "Amount exceeds maximum allowed value (u64 max)"]
    ELSE [valid |-> TRUE, error |-> ""]

validateCurrencyId(currencyId) ==
    IF currencyId # 0 /\ currencyId # 1
        THEN [valid |-> FALSE, error |-> "Invalid currency ID. Must be 0 (USDC) or 1 (IDRX)"]
    ELSE [valid |-> TRUE, error |-> ""]

-----------------------------------------------------------------------------
(* The transactions router and its builders *)

\* buildDepositTx: getCurrencyConfig, the instruction, getLatestBlockhash
buildDepositTx(p, cc, bh) ==
    LET r1 == <<ReadOf("currencyConfig", Undefined, cc)>>
        r2 == Append(r1, ReadOf("blockhash", Undefined, bh))
    IN IF ~PublicKeyOk(p.userWallet) THEN Thrown(<<>>)
       ELSE IF StrictReadThrows(cc) THEN Thrown(r1)
       ELSE IF bh.st # "ok" THEN Thrown(r2)
       ELSE Built(Transaction("Deposit", p.userWallet,
                              [goalIndex |-> p.goalIndex,
                               amount |-> BigOfDigits(p.amount.text),
                               currencyId |-> p.currencyId]),
                  r2, [kind |-> "deposit"])

\* the answer of a check that refuses the request; status 0: the check passed
Refused(status, error) == [status |-> status, error |-> error]

Passed == Refused(0, "")

\* a faulty variant: the currency is compared before the goal's status
DepositGoalChecksCurrencyFirst(b, goal) ==
    IF ReadNull(b.walletAddress, goal) THEN Refused(404, "Goal not found")
    ELSE IF goal.v.currencyId # b.currencyId THEN Refused(400, "Currency mismatch")
    ELSE IF goal.v.status # "active" THEN Refused(400, "Goal not active")
    ELSE Passed

\* part_002 53-76: the fetched goal is null, is not active, has another currency
DepositGoalChecks(b, goal) ==
    IF ReadNull(b.walletAddress, goal) THEN Refused(404, "Goal not found")
    ELSE IF goal.v.status # "active" THEN Refused(400, "Goal not active")
    ELSE IF goal.v.currencyId # b.currencyId THEN Refused(400, "Currency mismatch")
    ELSE Passed

\* POST /api/transactions/deposit
transactionsDeposit(b, goal, cc, bh) ==
    LET w == b.walletAddress
        r1 == <<ReadOf("goal", w, goal)>>
        result == buildDepositTx([userWallet |-> w, goalIndex |-> b.goalIndex,
                                  amount |-> b.amount, currencyId |-> b.currencyId], cc, bh)
        r2 == r1 \o result.reads
        newTotal == DoubleAdd(ToDouble(goal.v.currentAmount),
                              ToDouble(BigOfDigits(b.amount.text)))
    IN IF Falsy(w) \/ b.goalIndex = UndefinedNum \/ FalsyAmount(b.amount)
            \/ b.currencyId = UndefinedNum
        THEN Outcome(400, "Missing required fields", NoTx, <<>>)
       ELSE IF ~validateAmount(b.amount).valid
        THEN Outcome(400, "Invalid amount", NoTx, <<>>)
       ELSE IF ~validateCurrencyId(b.currencyId).valid
        THEN Outcome(400, "Invalid currency", NoTx, <<>>)
       ELSE IF ReadThrows(w, goal) THEN InternalError(NoTx, r1)
       ELSE IF DepositGoalChecks(b, goal) # Passed
        THEN Outcome(DepositGoalChecks(b, goal).status, DepositGoalChecks(b, goal).error,
                     NoTx, r1)
       ELSE IF ~result.ok THEN InternalError(NoTx, r2)
       ELSE Success([kind |-> "deposit", newTotal |-> newTotal], result.tx, r2)

\* a faulty variant: a goal at its deadline counts as early
isEarlyAtDeadline(goal, t) == goal.deadline >= NowSeconds(t)

\* isEarly = parseInt(goal.deadline) > now
isEarly(goal, t) == goal.deadline > NowSeconds(t)

\* the reads both withdrawal builders make before the instruction is built: the
\* goal again, getCurrencyConfig, getGlobalState, getLatestBlockhash
WithdrawReads(userWallet, goal, cc, gs, bh) ==
    LET r1 == <<ReadOf("goal", userWallet, goal)>>
        r2 == Append(r1, ReadOf("currencyConfig", Undefined, cc))
        r3 == Append(r2, ReadOf("globalState", Undefined, gs))
        r4 == Append(r3, ReadOf("blockhash", Undefined, bh))
    IN IF ~PublicKeyOk(userWallet) THEN Thrown(<<>>)
       ELSE IF ReadThrows(userWallet, goal) \/ ReadNull(userWallet, goal) THEN Thrown(r1)
       ELSE IF StrictReadThrows(cc) THEN Thrown(r2)
       ELSE IF StrictReadThrows(gs) THEN Thrown(r3)
       ELSE IF bh.st # "ok" THEN Thrown(r4)
       ELSE Built(NoTx, r4, NoInfo)

buildWithdrawCompletedTx(p, goal, cc, gs, bh) ==
    LET rd == WithdrawReads(p.userWallet, goal, cc, gs, bh)
        totalAmount == DoubleAdd(ToDouble(goal.v.currentAmount),
                                 ToDouble(goal.v.accruedInterest))
    IN IF ~rd.ok THEN rd
       ELSE Built(Transaction("WithdrawCompleted", p.userWallet,
                              [goalIndex |-> p.goalIndex]),
                  rd.reads,
                  [kind |-> "completed", principal |-> goal.v.currentAmount,
                   interest |-> goal.v.accruedInterest, totalAmount |-> totalAmount])

buildWithdrawEarlyTx(p, goal, cc, gs, bh) ==
    LET rd == WithdrawReads(p.userWallet, goal, cc, gs, bh)
        totalAmount == DoubleAdd(ToDouble(goal.v.currentAmount),
                                 ToDouble(goal.v.accruedInterest))
        penalty == FloorTimesPenaltyRate(totalAmount)
        amountAfterPenalty == DoubleSub(totalAmount, penalty)
    IN IF ~rd.ok THEN rd
       ELSE Built(Transaction("WithdrawEarly", p.userWallet,
                              [goalIndex |-> p.goalIndex]),
                  rd.reads,
                  [kind |-> "early", principal |-> goal.v.currentAmount,
                   interest |-> goal.v.accruedInterest,
                   totalBeforePenalty |-> totalAmount, penalty |-> penalty,
                   totalAfterPenalty |-> amountAfterPenalty])

\* a faulty variant: accrued interest counts as funds
NoFundsCountingInterest(goal) ==
    DoubleAdd(ToDouble(goal.currentAmount), ToDouble(goal.accruedInterest)) = Big(0)

\* parseInt(goal.currentAmount) === 0
NoFunds(goal) == ToDouble(goal.currentAmount) = Big(0)

\* POST /api/transactions/withdraw
transactionsWithdraw(b, goal, goal2, cc, gs, bh, t) ==
    LET w == b.walletAddress
        r1 == <<ReadOf("goal", w, goal)>>
        early == isEarly(goal.v, t) \/ Truthy(b.early)
        p == [userWallet |-> w, goalIndex |-> b.goalIndex]
        result == IF early THEN buildWithdrawEarlyTx(p, goal2, cc, gs, bh)
                  ELSE buildWithdrawCompletedTx(p, goal2, cc, gs, bh)
        r2 == r1 \o result.reads
        details ==
            [kind |-> "withdrawal",
             withdrawalType |-> IF early THEN "early" ELSE "completed",
             principal |-> result.ret.principal,
             interest |-> result.ret.interest,
             totalBeforePenalty |-> IF early THEN result.ret.totalBeforePenalty
                                    ELSE result.ret.totalAmount,
             penalty |-> IF early THEN result.ret.penalty ELSE Big(0),
             finalAmount |-> IF early THEN result.ret.totalAfterPenalty
                             ELSE result.ret.totalAmount]
    IN IF Falsy(w) \/ b.goalIndex = UndefinedNum
        THEN Outcome(400, "Missing required fields", NoTx, <<>>)
       ELSE IF ReadThrows(w, goal) THEN InternalError(NoTx, r1)
       ELSE IF ReadNull(w, goal) THEN Outcome(404, "Goal not found", NoTx, r1)
       ELSE IF NoFunds(goal.v)
        THEN Outcome(400, "No funds to withdraw", NoTx, r1)
       ELSE IF ~result.ok THEN InternalError(NoTx, r2)
       ELSE Success(details, result.tx, r2)

cooldownPeriod == 3600

MAX_CLAIMS_TODAY == 10

\* buildClaimFaucetTx: two public keys, the instruction, getLatestBlockhash
buildClaimFaucetTx(p, bh) ==
    LET r1 == <<ReadOf("blockhash", Undefined, bh)>>
    IN IF ~PublicKeyOk(p.userWallet) \/ ~PublicKeyOk(p.tokenMint) THEN Thrown(<<>>)
       ELSE IF bh.st # "ok" THEN Thrown(r1)
       ELSE Built(Transaction("ClaimFaucet", p.userWallet, [tokenMint |-> p.tokenMint]),
                  r1, [kind |-> "claim"])

\* a faulty variant: the tenth claim of the day is still served
FaucetRateLimitAboveCap(ufa, t) ==
    LET timeSinceLastClaim == NowSeconds(t) - ufa.lastClaimTime
    IN IF timeSinceLastClaim < cooldownPeriod THEN Refused(429, "Cooldown active")
       ELSE IF ufa.claimsToday > MAX_CLAIMS_TODAY THEN Refused(429, "Daily limit reached")
       ELSE Passed

\* part_002 270-293: the cooldown since the last claim, then the daily limit
FaucetRateLimit(ufa, t) ==
    LET timeSinceLastClaim == NowSeconds(t) - ufa.lastClaimTime
    IN IF timeSinceLastClaim < cooldownPeriod THEN Refused(429, "Cooldown active")
       ELSE IF ufa.claimsToday >= MAX_CLAIMS_TODAY THEN Refused(429, "Daily limit reached")
       ELSE Passed

\* POST /api/transactions/faucet/claim
transactionsFaucetClaim(b, cc, ufa, bh, fc, t, enabled) ==
    LET w == b.walletAddress
        lookup == Falsy(b.tokenMint) /\ b.currencyId # UndefinedNum
        r0 == IF lookup THEN <<ReadOf("currencyConfig", Undefined, cc)>> ELSE <<>>
        mintAddress == IF lookup THEN BaseTokenMints[b.currencyId + 1] ELSE b.tokenMint
        r1 == Append(r0, ReadOf("userFaucet", w, ufa))
        result == buildClaimFaucetTx([userWallet |-> w, tokenMint |-> mintAddress], bh)
        r2 == r1 \o result.reads
        r3 == Append(r2, ReadOf("faucetConfig", Undefined, fc))
    IN IF Falsy(w) THEN Outcome(400, "Missing required field", NoTx, <<>>)
       ELSE IF lookup /\ StrictReadThrows(cc) THEN InternalError(NoTx, r0)
       ELSE IF Falsy(mintAddress) THEN Outcome(400, "Missing token information", NoTx, r0)
       ELSE IF ~enabled THEN Outcome(403, "Faucet disabled", NoTx, r0)
       ELSE IF ReadThrows(w, ufa) THEN InternalError(NoTx, r1)
       ELSE IF ~ReadNull(w, ufa) /\ FaucetRateLimit(ufa.v, t) # Passed
        THEN Outcome(FaucetRateLimit(ufa.v, t).status, FaucetRateLimit(ufa.v, t).error,
                     NoTx, r1)
       ELSE IF ~result.ok THEN InternalError(NoTx, r2)
       \* getFaucetConfig runs after the transaction was built; null gives "N/A"
       ELSE IF fc.st = "error" THEN InternalError(result.tx, r3)
       ELSE Success([kind |-> "claim"], result.tx, r3)

\* GET /api/transactions/user/:address/history
transactionsHistory(address, goals) ==
    LET r1 == <<ReadOf("userGoals", address, goals)>>
    IN IF ReadThrows(address, goals) THEN InternalError(NoTx, r1)
       ELSE Success([kind |-> "history"], NoTx, r1)

-----------------------------------------------------------------------------
(* The bodies a client can send and the accounts the ledger can hold *)

\* POST /goals/create: every mode, risk tier, currency id and deadline around
\* now + 90 days; a body that lacks the name or the target amount is otherwise plain
CreateBodies(w, t) ==
    LET minDeadline == NowSeconds(t) + NINETY_DAYS IN
    {b \in [walletAddress : {w}, name : {Undefined, "Vacation"}, targetAmount : {0, 1000},
            mode : {Undefined, "lite", "pro", "max"},
            riskTier : {Undefined, "low", "extreme"},
            currencyId : {UndefinedNum, CURRENCY_IDS.USDC, CURRENCY_IDS.IDRX, UnknownCurrency},
            deadline : {0, minDeadline - 1, minDeadline, minDeadline + 1}] :
        (Falsy(b.name) \/ FalsyNum(b.targetAmount))
            => /\ b.mode = "lite" /\ b.riskTier = Undefined
               /\ b.currencyId = CURRENCY_IDS.USDC /\ b.deadline = minDeadline}

\* 2^64 - 1 and 2^64 in decimal
MaxU64Text == DecStr(184467440) \o DecStr(737095516) \o DecStr(15)

OverU64Text == DecStr(184467440) \o DecStr(737095516) \o DecStr(16)

DepositAmounts ==
    {NoAmount, NumberAmount(DecStr(0)), NumberAmount(DecStr(5)), NumberAmount(DecStr(0 - 5)),
     NumberAmount(<<"1", ".", "5">>), StringAmount(<<>>), StringAmount(DecStr(0)),
     StringAmount(DecStr(5)), StringAmount(MaxU64Text), StringAmount(OverU64Text)}

DepositBodies(w) ==
    [walletAddress : {w}, goalIndex : {UndefinedNum, 0}, amount : DepositAmounts,
     currencyId : {UndefinedNum, CURRENCY_IDS.USDC, CURRENCY_IDS.IDRX, UnknownCurrency}]

WithdrawBodies(w) ==
    [walletAddress : {w}, goalIndex : {UndefinedNum, 0},
     early : {Undefined, JsonFalse, JsonTrue}]

FaucetBodies(w) ==
    [walletAddress : {w}, tokenMint : {Undefined, BaseTokenMints[1], BadAddress},
     currencyId : {UndefinedNum, CURRENCY_IDS.USDC, UnknownCurrency}]

GoalFetches(goals) == Outcomes(goals, NoGoal)

\* the builder's second fetch of the goal: unchanged, emptied by a withdrawal
\* confirmed in between, gone, or failed
GoalRefetches(goal) ==
    {goal, Missing(NoGoal), Failed(NoGoal),
     [goal EXCEPT !.v.currentAmount = Big(0)]}

NoFaucetAccount == [lastClaimTime |-> 0, claimsToday |-> 0]

\* last claims 61 minutes, 60 minutes, 59 minutes 59 seconds and 1 minute ago,
\* with 9 and 10 claims today
FaucetAccounts(t) ==
    [lastClaimTime : {NowSeconds(t) - cooldownPeriod - 60, NowSeconds(t) - cooldownPeriod,
                      NowSeconds(t) - cooldownPeriod + 1, NowSeconds(t) - 60},
     claimsToday : {MAX_CLAIMS_TODAY - 1, MAX_CLAIMS_TODAY}]

FaucetFetches(t) == Outcomes(FaucetAccounts(t), NoFaucetAccount)

-----------------------------------------------------------------------------
(* Actions *)

\* the tables as db/schema.sql creates them
CacheEmpty ==
    /\ usersTable = {}
    /\ goalsTable = {}
    /\ dbNow = 0
    /\ lastCached = [op |-> "none"]

\* no service call is under way
ServiceIdle ==
    /\ currencies = <<>>
    /\ captured = {}
    /\ initialized = TRUE
    /\ server = "listening"
    /\ dbReachable = TRUE
    /\ dbConnected = TRUE
    /\ dbLog = <<>>
    /\ dbTransactions = <<>>
    /\ CacheEmpty

Init ==
    /\ simpleAuth \in BOOLEAN
    /\ faucetEnabled \in BOOLEAN
    /\ now = Now0
    /\ pc = "idle"
    /\ hdr = NoHdr
    /\ req = NoReq
    /\ mw = NoMw
    /\ authenticatedWallet = Undefined
    /\ body = NoBody
    /\ res = NoRes
    /\ tx = NoTx
    /\ reads = <<>>
    /\ faucetServed = Undefined
    /\ ledgerUsers = <<>>
    /\ ledgerGoals = {}
    /\ inflight = <<>>
    /\ ServiceIdle

\* a request arrives at one of the three mount points
Receive ==
    /\ pc = "idle"
    /\ \E h \in Headers(now), r \in Requests :
        /\ hdr' = h
        /\ req' = r
    /\ pc' = "received"
    /\ mw' = NoMw
    /\ authenticatedWallet' = Undefined
    /\ body' = NoBody
    /\ res' = NoRes
    /\ tx' = NoTx
    /\ reads' = <<>>
    /\ UNCHANGED <<raceVars, serviceVars, simpleAuth, faucetEnabled, faucetServed, now>>

\* a faulty variant: the router runs whatever the middleware answered
MiddlewareFallingThrough ==
    /\ pc = "received"
    /\ LET m == verifyWalletSignature(hdr, req, simpleAuth, now) IN
        /\ mw' = m
        /\ authenticatedWallet' = m.wallet
        /\ pc' = "authed"
        /\ res' = IF m.next THEN NoRes
                  ELSE [status |-> m.status, error |-> m.error, message |-> m.message,
                        info |-> NoInfo]
    /\ UNCHANGED <<raceVars, serviceVars, simpleAuth, faucetEnabled, faucetServed, now, hdr, req, body, tx, reads>>

\* app.use(mount, verifyWalletSignature, router): the middleware runs first
Middleware ==
    /\ pc = "received"
    /\ LET m == verifyWalletSignature(hdr, req, simpleAuth, now) IN
        /\ mw' = m
        /\ authenticatedWallet' = m.wallet
        /\ pc' = IF m.next THEN "authed" ELSE "done"
        /\ res' = IF m.next THEN NoRes
                  ELSE [status |-> m.status, error |-> m.error, message |-> m.message,
                        info |-> NoInfo]
    /\ UNCHANGED <<raceVars, serviceVars, simpleAuth, faucetEnabled, faucetServed, now, hdr, req, body, tx, reads>>

\* next(): the router mounted behind the middleware matches the route and fills
\* req.params.  The header values are locals of verifyWalletSignature (lines
\* 16-19) and no handler reads req.headers: they leave the state here.
Dispatch ==
    /\ pc = "authed"
    /\ pc' = "routed"
    /\ hdr' = NoHdr
    /\ UNCHANGED <<raceVars, serviceVars, simpleAuth, faucetEnabled, faucetServed, now, req, mw, authenticatedWallet,
                   body, res, tx, reads>>

\* the handler ends the request
HandlerDone(o, b) ==
    /\ pc' = "done"
    /\ res' = o.res
    /\ tx' = o.tx
    /\ reads' = o.reads
    /\ body' = b
    /\ UNCHANGED <<raceVars, serviceVars, simpleAuth, faucetEnabled, faucetServed, now, hdr, req, mw,
                   authenticatedWallet>>

\* the router matched the route after the middleware called next()
Routed(route) == pc = "routed" /\ req.route = route

UsersInitialize ==
    /\ Routed("users.initialize")
    /\ \E ua \in UserFetches, bh \in RpcOutcomes :
        HandlerDone(usersInitialize(req.bodyWallet, ua, bh),
                    [walletAddress |-> req.bodyWallet])

UsersGet ==
    /\ Routed("users.get")
    /\ \E ua \in UserFetches :
        HandlerDone(usersGet(req.address, ua), [address |-> req.address])

UsersStats ==
    /\ Routed("users.stats")
    /\ \E ua \in UserFetches, goals \in RpcOutcomes :
        HandlerDone(usersStats(req.address, ua, goals), [address |-> req.address])

UsersBalance ==
    /\ Routed("users.balance")
    /\ \E bal \in RpcOutcomes :
        HandlerDone(usersBalance(req.address, bal), [address |-> req.address])

GoalsCreate ==
    /\ Routed("goals.create")
    /\ \E b \in CreateBodies(req.bodyWallet, now), ua1 \in UserFetches,
          ua2 \in UserFetches, bh \in RpcOutcomes :
        \E cc \in CurrencyFetches(b.currencyId) :
            HandlerDone(goalsCreate(b, ua1, ua2, bh, cc, now), b)

GoalsUser ==
    /\ Routed("goals.user")
    /\ \E goals \in RpcOutcomes :
        HandlerDone(goalsUser(req.address, goals), [address |-> req.address])

GoalsGet ==
    /\ Routed("goals.get")
    /\ \E goal \in GoalFetches(WithdrawGoals(now)) :
        HandlerDone(goalsGet(req.address, goal, now),
                    [address |-> req.address, goalIndex |-> 0])

\* a faulty variant: the handler logs the deposit in the cache before it answers
TransactionsDepositCaching ==
    /\ Routed("tx.deposit")
    /\ \E b \in DepositBodies(req.bodyWallet), goal \in GoalFetches(DepositGoals(now)),
          bh \in RpcOutcomes :
        \E cc \in CurrencyFetches(b.currencyId) :
            LET o == transactionsDeposit(b, goal, cc, bh)
                cached == o.res.status = 200
            IN /\ pc' = "done"
               /\ res' = IF cached /\ ~dbReachable THEN InternalError(o.tx, o.reads).res
                          ELSE o.res
               /\ tx' = o.tx
               /\ reads' = o.reads
               /\ body' = b
               /\ dbLog' = IF cached THEN <<"INSERT INTO transactions">> ELSE dbLog
    /\ UNCHANGED <<raceVars, captured, currencies, dbTransactions, cacheVars, initialized, server, dbReachable, dbConnected,
                   simpleAuth, faucetEnabled, faucetServed, now, hdr, req, mw,
                   authenticatedWallet>>

TransactionsDeposit ==
    /\ Routed("tx.deposit")
    /\ \E b \in DepositBodies(req.bodyWallet), goal \in GoalFetches(DepositGoals(now)),
          bh \in RpcOutcomes :
        \E cc \in CurrencyFetches(b.currencyId) :
            HandlerDone(transactionsDeposit(b, goal, cc, bh), b)

TransactionsWithdraw ==
    /\ Routed("tx.withdraw")
    /\ \E b \in WithdrawBodies(req.bodyWallet), goal \in GoalFetches(WithdrawGoals(now)),
          cc \in RpcOrMissing, gs \in RpcOrMissing, bh \in RpcOutcomes :
        \E goal2 \in GoalRefetches(goal) :
            HandlerDone(transactionsWithdraw(b, goal, goal2, cc, gs, bh, now), b)

\* a faulty variant: the handler does not look at FAUCET_ENABLED
TransactionsFaucetClaimUngated ==
    /\ Routed("tx.faucet")
    /\ \E b \in FaucetBodies(req.bodyWallet), ufa \in FaucetFetches(now),
          bh \in RpcOutcomes, fc \in RpcOrMissing :
        \E cc \in CurrencyFetches(b.currencyId) :
            HandlerDone(transactionsFaucetClaim(b, cc, ufa, bh, fc, now, TRUE), b)

TransactionsFaucetClaim ==
    /\ Routed("tx.faucet")
    /\ \E b \in FaucetBodies(req.bodyWallet), ufa \in FaucetFetches(now),
          bh \in RpcOutcomes, fc \in RpcOrMissing :
        \E cc \in CurrencyFetches(b.currencyId) :
            HandlerDone(transactionsFaucetClaim(b, cc, ufa, bh, fc, now, faucetEnabled), b)

TransactionsHistory ==
    /\ Routed("tx.history")
    /\ \E goals \in RpcOutcomes :
        HandlerDone(transactionsHistory(req.address, goals), [address |-> req.address])

\* the response has gone out; the process holds nothing of the request
Finish ==
    /\ pc = "done"
    /\ pc' = "idle"
    /\ hdr' = NoHdr
    /\ req' = NoReq
    /\ mw' = NoMw
    /\ authenticatedWallet' = Undefined
    /\ body' = NoBody
    /\ res' = NoRes
    /\ tx' = NoTx
    /\ reads' = <<>>
    /\ faucetServed' = IF res.status = 200 /\ tx.kind = "ClaimFaucet" THEN tx.user
                       ELSE faucetServed
    /\ UNCHANGED <<raceVars, serviceVars, simpleAuth, faucetEnabled, now>>

Next ==
    \/ Receive
    \/ Middleware
    \/ Dispatch
    \/ UsersInitialize
    \/ UsersGet
    \/ UsersStats
    \/ UsersBalance
    \/ GoalsCreate
    \/ GoalsUser
    \/ GoalsGet
    \/ TransactionsDeposit
    \/ TransactionsWithdraw
    \/ TransactionsFaucetClaim
    \/ TransactionsHistory
    \/ Finish

Spec == Init /\ [][Next]_vars

-----------------------------------------------------------------------------
(* Concurrent POST /api/goals/create requests.  The handler awaits             *)
(* getUserAccount (goals.js 52), then buildCreateGoalTx awaits it again        *)
(* (transactions.js 74); other requests run at each await.  The client signs   *)
(* and submits the returned transaction; the ledger decides on it.             *)

MaxConcurrent == 2

RaceRequests == 1..MaxConcurrent

\* the accounts the two wallets hold when the requests arrive: three or four
\* goals created, all of them active
RaceAccounts ==
    {[totalGoalsCreated |-> n, activeGoals |-> n] :
        n \in (ACTIVE_GOAL_CEILING - 2)..(ACTIVE_GOAL_CEILING - 1)}

\* a goal that passes every check of the handler, or one a day short
RaceBodies(w, t) ==
    {b \in CreateBodies(w, t) :
        /\ b.name = "Vacation" /\ b.targetAmount = 1000 /\ b.mode = "lite"
        /\ b.riskTier = Undefined /\ b.currencyId = CURRENCY_IDS.USDC
        /\ b.deadline # 0 /\ b.deadline <= NowSeconds(t) + NINETY_DAYS}

\* a request the router has handed to the create handler
Arrived(b) ==
    [pc |-> "routed", body |-> b, userAccount |-> Failed(NoUser),
     res |-> NoRes, tx |-> NoTx, reads |-> <<>>, confirmedBefore |-> {}]

RaceInit ==
    /\ simpleAuth = FALSE
    /\ faucetEnabled = FALSE
    /\ now = Now0
    /\ pc = "idle"
    /\ hdr = NoHdr
    /\ req = NoReq
    /\ mw = NoMw
    /\ authenticatedWallet = Undefined
    /\ body = NoBody
    /\ res = NoRes
    /\ tx = NoTx
    /\ reads = <<>>
    /\ faucetServed = Undefined
    /\ ledgerUsers \in [Wallets -> RaceAccounts]
    /\ ledgerGoals = UNION {{getGoalAccountPDA(w, k) :
                                k \in 0..(ledgerUsers[w].totalGoalsCreated - 1)} :
                             w \in Wallets}
    /\ inflight \in [RaceRequests ->
                        {Arrived(b) : b \in UNION {RaceBodies(w, Now0) : w \in Wallets}}]
    /\ ServiceIdle

\* getUserAccount as the ledger stands, or an RPC failure
UserReads(w) == {Fetched(ledgerUsers[w]), Failed(NoUser)}

\* goals.js 52: the handler's own read of the user account
RaceReadUser(i) ==
    /\ inflight[i].pc = "routed"
    /\ \E ua \in UserReads(inflight[i].body.walletAddress) :
        inflight' = [inflight EXCEPT ![i].pc = "checked", ![i].userAccount = ua]
    /\ UNCHANGED <<requestVars, serviceVars, ledgerUsers, ledgerGoals>>

\* the rest of the handler: its checks on the account read before, then
\* buildCreateGoalTx with its own read of the account, then the response
RaceBuild(i) ==
    /\ inflight[i].pc = "checked"
    /\ LET b == inflight[i].body IN
       \E ua2 \in UserReads(b.walletAddress), bh \in RpcOutcomes :
        LET o == goalsCreate(b, inflight[i].userAccount, ua2, bh, Fetched(0), now)
        IN inflight' =
            [inflight EXCEPT ![i].pc = "done", ![i].res = o.res, ![i].tx = o.tx,
                             ![i].reads = o.reads,
                             ![i].confirmedBefore =
                                {j \in RaceRequests : inflight[j].pc = "accepted"}]
    /\ UNCHANGED <<requestVars, serviceVars, ledgerUsers, ledgerGoals>>

\* the ledger creates the goal account of a CreateGoal transaction unless an
\* account already exists at that address
LedgerAccepts(t) == t.fields.goalAccount \notin ledgerGoals

\* the client signs the transaction it was handed and submits it
RaceSubmit(i) ==
    /\ inflight[i].pc = "done" /\ inflight[i].res.status = 200
    /\ LET t == inflight[i].tx
           u == ledgerUsers[t.user]
       IN IF LedgerAccepts(t)
           THEN /\ ledgerGoals' = ledgerGoals \cup {t.fields.goalAccount}
                /\ ledgerUsers' =
                    [ledgerUsers EXCEPT ![t.user] =
                        [totalGoalsCreated |-> u.totalGoalsCreated + 1,
                         activeGoals |-> u.activeGoals + 1]]
                /\ inflight' = [inflight EXCEPT ![i].pc = "accepted"]
           ELSE /\ inflight' = [inflight EXCEPT ![i].pc = "failed"]
                /\ UNCHANGED <<ledgerUsers, ledgerGoals>>
    /\ UNCHANGED <<requestVars, serviceVars>>

RaceNext ==
    \/ \E i \in RaceRequests : RaceReadUser(i)
    \/ \E i \in RaceRequests : RaceBuild(i)
    \/ \E i \in RaceRequests : RaceSubmit(i)

RaceSpec == RaceInit /\ [][RaceNext]_vars

-----------------------------------------------------------------------------
(* GET /api/goals/currencies/all (goals.js 249-276) with                       *)
(* blockchainService.getAllCurrencies (blockchain.js 213-231), one step per    *)
(* awaited getCurrencyConfig.  The route is registered after                   *)
(* "/:address/:goalIndex" (goals.js 194), whose pattern matches the path       *)
(* "/currencies/all" as well; CurrenciesSpec starts where the handler runs.    *)

LiteApys == {500, 600}

CurrencyConfigs(currencyId) ==
    {[currencyId |-> currencyId, liteApy |-> a] : a \in LiteApys}

NoConfig(currencyId) == [currencyId |-> currencyId, liteApy |-> 0]

\* getCurrencyConfig(i): the account, "Account does not exist", or an RPC failure
ConfigFetches(currencyId) == Outcomes(CurrencyConfigs(currencyId), NoConfig(currencyId))

\* const currencyName = currency.currencyId === CURRENCY_IDS.USDC ? "USDC" : "IDRX"
Enriched(currency) ==
    [currencyId |-> currency.currencyId, liteApy |-> currency.liteApy,
     name |-> IF currency.currencyId = CURRENCY_IDS.USDC THEN "USDC" ELSE "IDRX"]

CurrenciesInit ==
    /\ simpleAuth \in BOOLEAN
    /\ faucetEnabled \in BOOLEAN
    /\ now = Now0
    /\ pc = "routed"
    /\ hdr = NoHdr
    /\ req = [route |-> "goals.currencies", address |-> Undefined, bodyWallet |-> Undefined]
    /\ mw \in {Accept(w) : w \in Wallets}
    /\ authenticatedWallet = mw.wallet
    /\ body = NoBody
    /\ res = NoRes
    /\ tx = NoTx
    /\ reads = <<>>
    /\ faucetServed = Undefined
    /\ ledgerUsers = <<>>
    /\ ledgerGoals = {}
    /\ inflight = <<>>
    /\ ServiceIdle

\* one turn of the loop of getAllCurrencies: for (let i = 0; i < 2; i++) with
\* try { currencies.push(await this.getCurrencyConfig(i)) } catch { console.log }
GetCurrencyConfig ==
    /\ pc = "routed" /\ req.route = "goals.currencies"
    /\ Len(reads) < Cardinality(DOMAIN CURRENCY_IDS)
    /\ \E f \in ConfigFetches(Len(reads)) :
        /\ reads' = Append(reads, ReadOf("currencyConfig", Undefined, f))
        /\ currencies' = IF StrictReadThrows(f) THEN currencies
                         ELSE Append(currencies, f.v)
    /\ UNCHANGED <<raceVars, captured, appVars, dbTransactions, cacheVars, simpleAuth, faucetEnabled, faucetServed, now, pc, hdr,
                   req, mw, authenticatedWallet, body, res, tx>>

\* getAllCurrencies returned: the handler maps the array and answers
GoalsCurrenciesAll ==
    /\ pc = "routed" /\ req.route = "goals.currencies"
    /\ Len(reads) = Cardinality(DOMAIN CURRENCY_IDS)
    /\ pc' = "done"
    /\ res' = Success([kind |-> "currencies",
                       currencies |-> [i \in DOMAIN currencies |-> Enriched(currencies[i])]],
                      NoTx, reads).res
    /\ currencies' = <<>>
    /\ UNCHANGED <<raceVars, captured, appVars, dbTransactions, cacheVars, simpleAuth, faucetEnabled, faucetServed, now, hdr, req,
                   mw, authenticatedWallet, body, tx, reads>>

CurrenciesNext ==
    \/ GetCurrencyConfig
    \/ GoalsCurrenciesAll

CurrenciesSpec == CurrenciesInit /\ [][CurrenciesNext]_vars

-----------------------------------------------------------------------------
(* The process: startServer (index.js 132-175), GET /health (index.js 59-98)   *)
(* and the five transaction-building requests, with a PostgreSQL server that   *)
(* comes and goes.  AppSpec serves the requests of one wallet, in simplified    *)
(* auth mode and with the faucet enabled.                                      *)

AppInit ==
    /\ simpleAuth = TRUE
    /\ faucetEnabled = TRUE
    /\ now = Now0
    /\ pc = "idle"
    /\ hdr = NoHdr
    /\ req = NoReq
    /\ mw = NoMw
    /\ authenticatedWallet = Undefined
    /\ body = NoBody
    /\ res = NoRes
    /\ tx = NoTx
    /\ reads = <<>>
    /\ faucetServed = Undefined
    /\ ledgerUsers = <<>>
    /\ ledgerGoals = {}
    /\ inflight = <<>>
    /\ currencies = <<>>
    /\ captured = {}
    /\ initialized = FALSE
    /\ server = "starting"
    /\ dbReachable \in BOOLEAN
    /\ dbConnected = FALSE
    /\ dbLog = <<>>
    /\ dbTransactions = <<>>
    /\ CacheEmpty

\* db.query(text): the statement reaches the pool; it throws unless the server answers
QueryOutcomes == IF dbReachable THEN {"ok", "slow"} ELSE {"error"}

\* startServer: initialize() throws without PROGRAM_ID and the catch exits; a
\* failed testConnection() only warns; then app.listen
startServerEnds(programIdSet, connected) ==
    IF programIdSet THEN "listening" ELSE "exited"

StartServer ==
    /\ server = "starting"
    /\ \E programIdSet \in BOOLEAN, q \in QueryOutcomes :
        /\ initialized' = programIdSet
        /\ dbConnected' = (programIdSet /\ q # "error")
        /\ dbLog' = IF programIdSet THEN <<"SELECT NOW() as now">> ELSE <<>>
        /\ server' = startServerEnds(programIdSet, q # "error")
    /\ UNCHANGED <<requestVars, raceVars, captured, currencies, dbTransactions, cacheVars, dbReachable>>

\* the database goes away or comes back, between requests or while one waits
\* for its handler
DatabaseChanges ==
    /\ server = "listening" /\ pc \in {"idle", "routed"}
    /\ dbReachable' = ~dbReachable
    /\ UNCHANGED <<requestVars, raceVars, captured, currencies, dbTransactions, cacheVars, initialized, server, dbConnected, dbLog>>

\* const isHealthy = blockchainHealthy
isHealthy(blockchainHealthy, databaseHealthy) == blockchainHealthy

\* GET /health: db.query("SELECT 1") races a two-second timeout
Health ==
    /\ server = "listening" /\ pc = "idle"
    /\ \E q \in QueryOutcomes :
        LET blockchainHealthy == initialized
            databaseHealthy == q = "ok"
        IN res' = [status |-> IF isHealthy(blockchainHealthy, databaseHealthy)
                                THEN 200 ELSE 503,
                   error |-> "",
                   info |-> [kind |-> "health", blockchain |-> blockchainHealthy,
                             database |-> databaseHealthy]]
    /\ req' = [route |-> "health", address |-> Undefined, bodyWallet |-> Undefined]
    /\ pc' = "done"
    /\ dbLog' = <<"SELECT 1">>
    /\ UNCHANGED <<raceVars, captured, currencies, dbTransactions, cacheVars, initialized, server, dbReachable, dbConnected,
                   simpleAuth, faucetEnabled, faucetServed, now, hdr, mw,
                   authenticatedWallet, body, tx, reads>>

\* a transaction-building request of a wallet, with the headers simplified mode asks for
AppReceive ==
    /\ server = "listening" /\ pc = "idle"
    /\ \E r \in Requests :
        /\ r.route \in PostRoutes /\ r.bodyWallet = WalletA
        /\ req' = r
        /\ hdr' = [NoHdr EXCEPT !.wallet = r.bodyWallet, !.timestamp = Some(DecStr(now))]
    /\ pc' = "received"
    /\ dbLog' = <<>>
    /\ UNCHANGED <<raceVars, captured, currencies, dbTransactions, cacheVars, initialized, server, dbReachable, dbConnected,
                   simpleAuth, faucetEnabled, faucetServed, now, mw, authenticatedWallet,
                   body, res, tx, reads>>

AppNext ==
    \/ StartServer
    \/ DatabaseChanges
    \/ Health
    \/ AppReceive
    \/ Middleware
    \/ Dispatch
    \/ UsersInitialize
    \/ GoalsCreate
    \/ TransactionsDeposit
    \/ TransactionsWithdraw
    \/ TransactionsFaucetClaim
    \/ Finish

AppSpec == AppInit /\ [][AppNext]_vars

-----------------------------------------------------------------------------
(* db.transaction(callback) (db.js 130-144) on a client of getClient (db.js     *)
(* 94-123).  Every await is a step; each statement and the callback end well   *)
(* or throw.  TxnSpec runs MaxTransactions calls side by side, each on its own *)
(* client of the pool.                                                         *)

MaxTransactions == 2

TransactionCalls == 1..MaxTransactions

\* a call of db.transaction that has not reached its first await
Called ==
    [pc |-> "connect", log |-> <<>>, error |-> "", thrown |-> "", clients |-> 0,
     released |-> 0]

TxnInit ==
    /\ simpleAuth = FALSE
    /\ faucetEnabled = FALSE
    /\ now = Now0
    /\ pc = "idle"
    /\ hdr = NoHdr
    /\ req = NoReq
    /\ mw = NoMw
    /\ authenticatedWallet = Undefined
    /\ body = NoBody
    /\ res = NoRes
    /\ tx = NoTx
    /\ reads = <<>>
    /\ faucetServed = Undefined
    /\ ledgerUsers = <<>>
    /\ ledgerGoals = {}
    /\ inflight = <<>>
    /\ currencies = <<>>
    /\ captured = {}
    /\ initialized = TRUE
    /\ server = "listening"
    /\ dbReachable = TRUE
    /\ dbConnected = TRUE
    /\ dbLog = <<>>
    /\ dbTransactions = [i \in TransactionCalls |-> Called]
    /\ CacheEmpty

\* what an awaited step of the call does: it resolves or it rejects
StepOutcomes == {"ok", "throws"}

\* the step of call i moves it to c
TxnStep(i, c) ==
    /\ dbTransactions' = [dbTransactions EXCEPT ![i] = c]
    /\ UNCHANGED <<requestVars, raceVars, captured, currencies, appVars, cacheVars>>

\* const client = await getClient(), outside the try: a failed connect is thrown
\* with no client obtained
TxnGetClient(i) ==
    LET c == dbTransactions[i] IN
    /\ c.pc = "connect"
    /\ \E o \in StepOutcomes :
        TxnStep(i, IF o = "ok" THEN [c EXCEPT !.pc = "begin", !.clients = 1]
                   ELSE [c EXCEPT !.pc = "threw", !.thrown = "connect failed"])

\* await client.query("BEGIN")
TxnBegin(i) ==
    LET c == dbTransactions[i] IN
    /\ c.pc = "begin"
    /\ \E o \in StepOutcomes :
        TxnStep(i, IF o = "ok" THEN [c EXCEPT !.pc = "callback", !.log = Append(@, "BEGIN")]
                   ELSE [c EXCEPT !.pc = "catch", !.log = Append(@, "BEGIN"),
                                  !.error = "BEGIN failed"])

\* const result = await callback(client): the callback sends its statement on the
\* client and returns, or throws
TxnCallback(i) ==
    LET c == dbTransactions[i] IN
    /\ c.pc = "callback"
    /\ \E o \in StepOutcomes :
        TxnStep(i, IF o = "ok" THEN [c EXCEPT !.pc = "commit", !.log = Append(@, "INSERT")]
                   ELSE [c EXCEPT !.pc = "catch", !.log = Append(@, "INSERT"),
                                  !.error = "callback threw"])

\* await client.query("COMMIT"); return result
TxnCommit(i) ==
    LET c == dbTransactions[i] IN
    /\ c.pc = "commit"
    /\ \E o \in StepOutcomes :
        TxnStep(i, IF o = "ok" THEN [c EXCEPT !.pc = "finally", !.log = Append(@, "COMMIT")]
                   ELSE [c EXCEPT !.pc = "catch", !.log = Append(@, "COMMIT"),
                                  !.error = "COMMIT failed"])

\* catch (error) { await client.query("ROLLBACK"); throw error; }: when ROLLBACK
\* rejects, its error leaves the catch block and `throw error` is not reached
RolledBack(c, o) ==
    [c EXCEPT !.pc = "finally", !.log = Append(@, "ROLLBACK"),
              !.thrown = IF o = "ok" THEN c.error ELSE "ROLLBACK failed"]

TxnRollback(i) ==
    LET c == dbTransactions[i] IN
    /\ c.pc = "catch"
    /\ \E o \in StepOutcomes : TxnStep(i, RolledBack(c, o))

\* finally { client.release(); }, then the call returns or throws
Released(c) ==
    [c EXCEPT !.pc = IF c.thrown = "" THEN "returned" ELSE "threw",
              !.released = @ + 1]

TxnFinally(i) ==
    LET c == dbTransactions[i] IN
    /\ c.pc = "finally"
    /\ TxnStep(i, Released(c))

TxnNext ==
    \/ \E i \in TransactionCalls : TxnGetClient(i)
    \/ \E i \in TransactionCalls : TxnBegin(i)
    \/ \E i \in TransactionCalls : TxnCallback(i)
    \/ \E i \in TransactionCalls : TxnCommit(i)
    \/ \E i \in TransactionCalls : TxnRollback(i)
    \/ \E i \in TransactionCalls : TxnFinally(i)

TxnSpec == TxnInit /\ [][TxnNext]_vars

-----------------------------------------------------------------------------
(* cacheUser and cacheGoal (db.js 175-250) on the tables users and goals of     *)
(* db/schema.sql.  A row of the model keeps the key columns, the columns the   *)
(* upsert rewrites, one column it writes on insert only (name) and the         *)
(* timestamps the statement and the update trigger set.  CacheSpec makes up to *)
(* MaxDbNow calls; NOW() advances with every statement.                        *)

MaxDbNow == 3

UserAccountPdas == {"userAccountA", "userAccountB"}

\* the argument of cacheUser
UserData == [walletAddress : Wallets, userAccountPDA : UserAccountPdas]

GoalAccountPdas == {"goalAccount0", "goalAccount1"}

\* what the ledger holds of a goal, before and after it completed with interest
GoalVersions ==
    {[currentAmount |-> 0, status |-> "active", principal |-> 0, accruedInterest |-> 0],
     [currentAmount |-> 100, status |-> "completed", principal |-> 100,
      accruedInterest |-> 5]}

\* the argument of cacheGoal
GoalData ==
    {[userId |-> 1, walletAddress |-> WalletA, goalAccountPDA |-> g, goalIndex |-> k,
      name |-> n, currentAmount |-> v.currentAmount, status |-> v.status,
      principal |-> v.principal, accruedInterest |-> v.accruedInterest] :
        g \in GoalAccountPdas, k \in 0..1, n \in {"Vacation", "Car"}, v \in GoalVersions}

\* the statement failed: the helper logs and rethrows, no row is written
Rejected(rows) == [ok |-> FALSE, rows |-> rows]

Returning(rows) == [ok |-> TRUE, rows |-> rows]

\* CREATE TRIGGER update_users_updated_at / update_goals_updated_at BEFORE UPDATE
update_updated_at_column(row, t) == [row EXCEPT !.updated_at = t]

\* INSERT INTO users ... ON CONFLICT (wallet_address) DO UPDATE SET
\* user_account_pda = EXCLUDED.user_account_pda, last_synced_at = NOW();
\* user_account_pda is UNIQUE as well and is no arbiter of the upsert; the id of
\* a new row stands for uuid_generate_v4()
cacheUser(rows, userData, t) ==
    LET conflicting == {r \in rows : r.wallet_address = userData.walletAddress}
        others == rows \ conflicting
        pdaTaken == \E r \in others : r.user_account_pda = userData.userAccountPDA
        inserted == [id |-> Cardinality(rows) + 1,
                     wallet_address |-> userData.walletAddress,
                     user_account_pda |-> userData.userAccountPDA,
                     created_at |-> t, updated_at |-> t, last_synced_at |-> t]
        updated(r) == update_updated_at_column(
                          [r EXCEPT !.user_account_pda = userData.userAccountPDA,
                                    !.last_synced_at = t], t)
    IN IF pdaTaken THEN Rejected(rows)
       ELSE IF conflicting = {} THEN Returning(rows \cup {inserted})
       ELSE Returning(others \cup {updated(r) : r \in conflicting})

\* a faulty variant: ON CONFLICT (goal_account_pda) DO NOTHING
cacheGoalKeepingFirst(rows, users, goalData, t) ==
    LET conflicting == {r \in rows : r.goal_account_pda = goalData.goalAccountPDA}
        inserted == [id |-> Cardinality(rows) + 1, user_id |-> goalData.userId,
                     wallet_address |-> goalData.walletAddress,
                     goal_account_pda |-> goalData.goalAccountPDA,
                     goal_index |-> goalData.goalIndex, name |-> goalData.name,
                     current_amount |-> goalData.currentAmount,
                     status |-> goalData.status, principal |-> goalData.principal,
                     accrued_interest |-> goalData.accruedInterest,
                     created_at |-> t, updated_at |-> t, last_synced_at |-> t]
    IN IF conflicting # {} THEN Returning(rows)
       ELSE IF \A u \in users : u.id # goalData.userId THEN Rejected(rows)
       ELSE IF \E r \in rows : /\ r.wallet_address = goalData.walletAddress
                               /\ r.goal_index = goalData.goalIndex
           THEN Rejected(rows)
       ELSE Returning(rows \cup {inserted})

\* INSERT INTO goals ... ON CONFLICT (goal_account_pda) DO UPDATE SET
\* current_amount, status, principal, accrued_interest = EXCLUDED..., last_synced_at
\* = NOW(); an insert needs its user row (user_id REFERENCES users(id)) and a free
\* (wallet_address, goal_index) pair (unique_user_goal_index)
cacheGoal(rows, users, goalData, t) ==
    LET conflicting == {r \in rows : r.goal_account_pda = goalData.goalAccountPDA}
        inserted == [id |-> Cardinality(rows) + 1, user_id |-> goalData.userId,
                     wallet_address |-> goalData.walletAddress,
                     goal_account_pda |-> goalData.goalAccountPDA,
                     goal_index |-> goalData.goalIndex, name |-> goalData.name,
                     current_amount |-> goalData.currentAmount,
                     status |-> goalData.status, principal |-> goalData.principal,
                     accrued_interest |-> goalData.accruedInterest,
                     created_at |-> t, updated_at |-> t, last_synced_at |-> t]
        updated(r) == update_updated_at_column(
                          [r EXCEPT !.current_amount = goalData.currentAmount,
                                    !.status = goalData.status,
                                    !.principal = goalData.principal,
                                    !.accrued_interest = goalData.accruedInterest,
                                    !.last_synced_at = t], t)
    IN IF conflicting # {}
           THEN Returning((rows \ conflicting) \cup {updated(r) : r \in conflicting})
       ELSE IF \A u \in users : u.id # goalData.userId THEN Rejected(rows)
       ELSE IF \E r \in rows : /\ r.wallet_address = goalData.walletAddress
                               /\ r.goal_index = goalData.goalIndex
           THEN Rejected(rows)
       ELSE Returning(rows \cup {inserted})

CacheInit ==
    /\ simpleAuth = FALSE
    /\ faucetEnabled = FALSE
    /\ now = Now0
    /\ pc = "idle"
    /\ hdr = NoHdr
    /\ req = NoReq
    /\ mw = NoMw
    /\ authenticatedWallet = Undefined
    /\ body = NoBody
    /\ res = NoRes
    /\ tx = NoTx
    /\ reads = <<>>
    /\ faucetServed = Undefined
    /\ ledgerUsers = <<>>
    /\ ledgerGoals = {}
    /\ inflight = <<>>
    /\ ServiceIdle

\* a call of cacheUser: one statement through db.query
CacheUser ==
    /\ dbNow < MaxDbNow
    /\ \E userData \in UserData :
        LET o == cacheUser(usersTable, userData, dbNow + 1) IN
        /\ usersTable' = o.rows
        /\ lastCached' = IF o.ok THEN [op |-> "cacheUser", data |-> userData]
                         ELSE lastCached
    /\ dbNow' = dbNow + 1
    /\ UNCHANGED <<requestVars, raceVars, captured, currencies, appVars, dbTransactions, goalsTable>>

\* a call of cacheGoal: one statement through db.query
CacheGoal ==
    /\ dbNow < MaxDbNow
    /\ \E goalData \in GoalData :
        LET o == cacheGoal(goalsTable, usersTable, goalData, dbNow + 1) IN
        /\ goalsTable' = o.rows
        /\ lastCached' = IF o.ok THEN [op |-> "cacheGoal", data |-> goalData]
                         ELSE lastCached
    /\ dbNow' = dbNow + 1
    /\ UNCHANGED <<requestVars, raceVars, captured, currencies, appVars, dbTransactions, usersTable>>

CacheNext ==
    \/ CacheUser
    \/ CacheGoal

CacheSpec == CacheInit /\ [][CacheNext]_vars

-----------------------------------------------------------------------------
(* Requests over time.  ReplaySpec lets the clock advance between requests in *)
(* full mode and keeps, for every signed message that was passed on, the time *)
(* it was first passed on; a later request carries either newly signed        *)
(* headers or the wallet, signature and message of an earlier one with an     *)
(* X-Timestamp of the sender's choice.                                        *)

\* how often the clock advances
MaxTicks == 2

\* the time between two requests: three minutes
Tick == 3 * 60 * 1000

\* X-Wallet-Address, X-Signature and X-Message as they went over the wire at time t
Captured(h, t, passed) ==
    [wallet |-> h.wallet, signature |-> h.signature, message |-> h.message,
     at |-> t, passed |-> passed]

\* the headers were passed on by the middleware before
SeenPassed(h) ==
    {c \in captured : /\ c.passed = "next"
                      /\ c.wallet = h.wallet
                      /\ c.signature = h.signature
                      /\ c.message = h.message}

\* headers a wallet signs now
SignedHeaders(t) ==
    {[wallet |-> w, signature |-> SignatureOf(w, m), message |-> m,
      timestamp |-> Some(DecStr(t))] : w \in Wallets, m \in Messages}

\* headers of an earlier request, presented again with its own or a new timestamp
ReplayedHeaders(t) ==
    UNION {{[wallet |-> c.wallet, signature |-> c.signature, message |-> c.message,
             timestamp |-> Some(DecStr(s))] : s \in {c.at, t}} :
              c \in {d \in captured : d.passed = "next"}}

ReplayInit ==
    /\ simpleAuth = FALSE
    /\ faucetEnabled = FALSE
    /\ now = Now0
    /\ pc = "idle"
    /\ hdr = NoHdr
    /\ req = NoReq
    /\ mw = NoMw
    /\ authenticatedWallet = Undefined
    /\ body = NoBody
    /\ res = NoRes
    /\ tx = NoTx
    /\ reads = <<>>
    /\ faucetServed = Undefined
    /\ ledgerUsers = <<>>
    /\ ledgerGoals = {}
    /\ inflight = <<>>
    /\ ServiceIdle

\* Date.now() moves on between two requests
ReplayTick ==
    /\ pc = "idle"
    /\ now < Now0 + MaxTicks * Tick
    /\ now' = now + Tick
    /\ UNCHANGED <<raceVars, serviceVars, simpleAuth, faucetEnabled, faucetServed, pc, hdr,
                   req, mw, authenticatedWallet, body, res, tx, reads>>

\* GET /api/users/:address/balance arrives for the wallet of its headers
ReplayReceive ==
    /\ pc = "idle"
    /\ \E h \in SignedHeaders(now) \cup ReplayedHeaders(now) :
        /\ hdr' = h
        /\ req' = [route |-> "users.balance", address |-> h.wallet, bodyWallet |-> Undefined]
        /\ captured' = captured \cup {Captured(h, now, "pending")}
    /\ pc' = "received"
    /\ mw' = NoMw
    /\ authenticatedWallet' = Undefined
    /\ body' = NoBody
    /\ res' = NoRes
    /\ tx' = NoTx
    /\ reads' = <<>>
    /\ UNCHANGED <<raceVars, currencies, appVars, dbTransactions, cacheVars, simpleAuth,
                   faucetEnabled, faucetServed, now>>

\* the response has gone out: what was on the wire is kept if the middleware
\* passed the request on and these headers were not seen passed on before
ReplayFinish ==
    /\ pc = "done"
    /\ pc' = "idle"
    /\ captured' = {IF c.passed = "pending" THEN [c EXCEPT !.passed = "next"] ELSE c :
                      c \in {d \in captured :
                               d.passed = "pending" => mw.next /\ SeenPassed(d) = {}}}
    /\ hdr' = NoHdr
    /\ req' = NoReq
    /\ mw' = NoMw
    /\ authenticatedWallet' = Undefined
    /\ body' = NoBody
    /\ res' = NoRes
    /\ tx' = NoTx
    /\ reads' = <<>>
    /\ UNCHANGED <<raceVars, currencies, appVars, dbTransactions, cacheVars, simpleAuth,
                   faucetEnabled, faucetServed, now>>

ReplayNext ==
    \/ ReplayTick
    \/ ReplayReceive
    \/ Middleware
    \/ Dispatch
    \/ UsersBalance
    \/ ReplayFinish

ReplaySpec == ReplayInit /\ [][ReplayNext]_vars

-----------------------------------------------------------------------------
(* Properties of the authentication middleware *)

\* verifyWalletSignature has answered and its header values are still at hand
MiddlewareAnswered == pc = "authed" \/ (pc = "done" /\ ~mw.next)

\* the handler of the route has answered
HandlerAnswered(route) == pc = "done" /\ mw.next /\ req.route = route

\* the auth state machine as specified: 401 for missing headers, for a timestamp
\* that is invalid or expired, for a malformed address and for a signature that
\* does not decode and verify; 403 for a path or body wallet other than the header
\* wallet; 0 for authenticated
AuthStateMachine(h, r, t) ==
    IF Falsy(h.wallet) \/ h.signature.kind = "undefined" \/ Falsy(h.message)
            \/ FalsyStr(h.timestamp) THEN 401
    ELSE IF isNaN(parseInt(h.timestamp.v))
            \/ Abs(t - parseInt(h.timestamp.v).val) > 300000 THEN 401
    ELSE IF ~PublicKeyOk(h.wallet) THEN 401
    ELSE IF ~(h.signature.kind = "bytes" /\ h.signature.signer = h.wallet
                /\ h.signature.msg = h.message) THEN 401
    ELSE IF (r.address # Undefined /\ r.address # h.wallet)
            \/ (r.bodyWallet # Undefined /\ r.bodyWallet # h.wallet) THEN 403
    ELSE 0

(* C1: in full mode verifyWalletSignature answers as the ordered checks of the   *)
(* auth state machine do - 401 for missing headers, a bad or expired timestamp,  *)
(* a malformed address, a signature that does not decode and verify; 403 for a   *)
(* path or body wallet that differs from the header wallet - and passes the      *)
(* request on, authenticated as the header wallet, only when all five pass.      *)
C1_FullModeCheckOrder ==
    (~simpleAuth /\ MiddlewareAnswered) =>
        /\ mw.status = AuthStateMachine(hdr, req, now)
        /\ mw.next = (AuthStateMachine(hdr, req, now) = 0)
        /\ (mw.next => authenticatedWallet = hdr.wallet)

\* a signature of the wrong length, all else valid, is answered 500
C1_WrongLengthSignature ==
    /\ ~simpleAuth /\ pc = "done"
    /\ hdr.wallet = WalletA /\ hdr.message = "m1" /\ hdr.signature = GarbageSig(10)
    /\ hdr.timestamp = Some(DecStr(now))
    /\ mw.status = 500

(* C2: on every route whose path names a wallet, a request with valid            *)
(* credentials for another wallet is answered 403 by the middleware; its handler *)
(* never runs and it is never answered 200 or 404.                               *)
C2_CrossAccountForbidden ==
    /\ (MiddlewareAnswered /\ req.route \in AddressRoutes
            /\ verifyWalletSignature(hdr, NoReq, simpleAuth, now).next
            /\ hdr.wallet # req.address)
        => (mw.status = 403 /\ ~mw.next)
    /\ (req.route \in AddressRoutes /\ mw.next /\ mw.wallet # req.address)
        => (pc # "routed" /\ res.status \notin {200, 404})

\* wallet A, signature verified, reads the account of wallet B
C2_CrossAccountRead ==
    /\ ~simpleAuth /\ pc = "done" /\ req.route = "users.get"
    /\ authenticatedWallet = WalletA /\ req.address = WalletB
    /\ res.status = 200

(* C3: in both modes every account read and every transaction of the            *)
(* transaction-building handlers is for req.authenticatedWallet: the fee payer   *)
(* and user of the built transaction equal it, and so does the wallet of every   *)
(* wallet-keyed account read.                                                    *)
C3_AuthenticatedWalletOnly ==
    (pc = "done" /\ mw.next /\ req.route \in PostRoutes) =>
        /\ tx.kind # "none" =>
            (tx.feePayer = authenticatedWallet /\ tx.user = authenticatedWallet)
        /\ \A i \in 1..Len(reads) : reads[i].wallet \in {Undefined, authenticatedWallet}

\* simplified mode: wallet A in the header, a transaction built for wallet B
C3_TransactionForBodyWallet ==
    /\ simpleAuth /\ pc = "done" /\ req.route = "users.initialize"
    /\ authenticatedWallet = WalletA
    /\ tx.kind = "InitializeUser" /\ tx.feePayer = WalletB

\* every header check of full mode other than the timestamp window passes
OtherChecksPass(h, r) ==
    /\ ~Falsy(h.wallet) /\ ~Falsy(h.message) /\ ~FalsyStr(h.timestamp)
    /\ ~isNaN(parseInt(h.timestamp.v))
    /\ PublicKeyOk(h.wallet)
    /\ h.signature = SignatureOf(h.wallet, h.message)
    /\ r.bodyWallet \in {Undefined, h.wallet}

(* C4: in full mode a request whose other headers are valid passes exactly when  *)
(* |now - timestamp| <= 300000 ms, in the past and in the future: 4 min 59 s old *)
(* is accepted, 5 min 1 s old is answered 401.                                   *)
C4_TimestampWindow ==
    (~simpleAuth /\ MiddlewareAnswered /\ OtherChecksPass(hdr, req)) =>
        LET ts == parseInt(hdr.timestamp.v).val IN
        /\ mw.next = (Abs(now - ts) <= 300000)
        /\ ~mw.next => mw.status = 401
        /\ ts = now - 299000 => mw.next
        /\ ts = now - 301000 => mw.status = 401

\* a timestamp exactly five minutes old is accepted
C4_AcceptedAtEdge ==
    /\ ~simpleAuth /\ pc = "authed" /\ OtherChecksPass(hdr, req)
    /\ parseInt(hdr.timestamp.v).val = now - 300000
    /\ mw.next

(* C5: no handler runs, no ledger read is made and no transaction is built for a *)
(* request unless verifyWalletSignature called next() for it; a request the      *)
(* middleware rejected ends with the middleware's response and nothing else.     *)
C5_NoHandlerWithoutNext ==
    /\ (pc = "routed" \/ body # NoBody \/ reads # <<>> \/ tx.kind # "none")
        => (mw.next /\ authenticatedWallet = mw.wallet)
    /\ (pc = "done" /\ ~mw.next)
        => (body = NoBody /\ reads = <<>> /\ tx.kind = "none" /\ res.status = mw.status)

\* a handler ran after next(): it read the ledger and built a transaction
C5_HandlerAfterNext ==
    pc = "done" /\ mw.next /\ reads # <<>> /\ tx.kind # "none"

\* the text starts with a decimal digit
StartsWithDigit(text) == text # <<>> /\ IsDigit(Head(text))

(* C6: in simplified mode a request is authenticated exactly when the wallet     *)
(* header is present and well formed and the timestamp header is present and     *)
(* parses as a number; the signature, the message, the age of the timestamp and  *)
(* the wallet of the path or body play no part.                                  *)
C6_SimplifiedMode ==
    (simpleAuth /\ MiddlewareAnswered) =>
        /\ mw.next = (/\ hdr.wallet # Undefined /\ hdr.wallet \in Wallets
                      /\ hdr.timestamp.def /\ StartsWithDigit(hdr.timestamp.v))
        /\ mw.next => authenticatedWallet = hdr.wallet
        /\ ~mw.next => mw.status = 401

\* accepted with no signature, no message, a stale timestamp and another wallet
\* in the body
C6_AcceptedWithoutProof ==
    /\ simpleAuth /\ pc = "authed" /\ mw.next
    /\ hdr.signature = NoSig /\ hdr.message = Undefined
    /\ hdr.timestamp = Some(DecStr(now - 301000))
    /\ hdr.wallet = WalletA /\ req.bodyWallet = WalletB

-----------------------------------------------------------------------------
(* Properties of the handlers *)

(* C7, as amended: a withdrawal is built as WithdrawEarly when the fetched       *)
(* deadline is after the current second or the body's early flag is true, and    *)
(* as WithdrawCompleted otherwise.                                               *)
C7_VariantByDeadlineOrFlag ==
    (HandlerAnswered("tx.withdraw") /\ tx.kind # "none") =>
        LET early == reads[1].v.deadline > now \div 1000 \/ body.early = JsonTrue IN
        /\ tx.kind = IF early THEN "WithdrawEarly" ELSE "WithdrawCompleted"
        /\ res.status = 200
        /\ res.info.withdrawalType = IF early THEN "early" ELSE "completed"

(* C7, as stated: the variant is decided by the deadline alone - WithdrawEarly   *)
(* when deadline > now, WithdrawCompleted otherwise.                             *)
C7_VariantByDeadlineOnly ==
    (HandlerAnswered("tx.withdraw") /\ tx.kind # "none") =>
        tx.kind = IF reads[1].v.deadline > now \div 1000 THEN "WithdrawEarly"
                  ELSE "WithdrawCompleted"

\* a goal one second past its deadline, withdrawn early because the flag says so
C7_EarlyByFlag ==
    /\ HandlerAnswered("tx.withdraw") /\ tx.kind = "WithdrawEarly"
    /\ reads[1].v.deadline = (now \div 1000) - 1
    /\ body.early = JsonTrue

(* C8: for every early withdrawal totalBeforePenalty = currentAmount +           *)
(* accruedInterest, penalty = floor(totalBeforePenalty * 2 / 100) and            *)
(* totalAfterPenalty = totalBeforePenalty - penalty; 10000 gives 200 and 9800,   *)
(* 1 gives 0 and 1.                                                              *)
C8_PenaltyArithmetic ==
    (HandlerAnswered("tx.withdraw") /\ tx.kind = "WithdrawEarly") =>
        LET goal == reads[2].v
            total == BigAdd(goal.currentAmount, goal.accruedInterest)
            penalty == res.info.penalty
            payout == res.info.finalAmount
        IN /\ res.info.totalBeforePenalty = total
           /\ BigLeq(BigMul(penalty, Big(100)), BigMul(total, Big(2)))
           /\ BigLess(BigMul(total, Big(2)), BigMul(BigAdd(penalty, Big(1)), Big(100)))
           /\ BigAdd(penalty, payout) = total
           /\ BigLeq(penalty, total)
           /\ total = Big(10000) => (penalty = Big(200) /\ payout = Big(9800))
           /\ total = Big(1) => (penalty = Big(0) /\ payout = Big(1))

\* a balance of 2^53 + 1 is reported as a total of 2^53
C8_RoundedTotal ==
    /\ HandlerAnswered("tx.withdraw") /\ tx.kind = "WithdrawEarly"
    /\ reads[2].v.currentAmount = BigAdd(ShiftLeft(Big(1), 53), Big(1))
    /\ reads[2].v.accruedInterest = Big(0)
    /\ res.info.totalBeforePenalty = ShiftLeft(Big(1), 53)

(* C9: POST /goals/create builds a CreateGoal transaction only when the fetched  *)
(* UserAccount has fewer than 5 active goals: with 5 it is rejected and nothing  *)
(* is built, with 4 (and every other rule and read passing) it is built.         *)
C9_GoalCeiling ==
    HandlerAnswered("goals.create") =>
        /\ tx.kind = "CreateGoal" => (reads[1].st = "ok" /\ reads[1].v.activeGoals < 5)
        /\ (reads # <<>> /\ reads[1].st = "ok" /\ reads[1].v.activeGoals >= 5)
            => (tx.kind = "none" /\ res.status = 400 /\ Len(reads) = 1)
        /\ (reads # <<>> /\ reads[1].st = "ok" /\ reads[1].v.activeGoals = 4
                /\ body.deadline >= (now \div 1000) + 7776000)
            => /\ Len(reads) >= 2
               /\ reads[2].st = "ok" => (Len(reads) >= 3 /\ reads[3].account = "blockhash")
               /\ (reads[2].st = "ok" /\ reads[3].st = "ok") => tx.kind = "CreateGoal"

\* four active goals: the fifth is built
C9_FifthGoalBuilt ==
    /\ HandlerAnswered("goals.create") /\ res.status = 200 /\ tx.kind = "CreateGoal"
    /\ reads[1].v.activeGoals = 4

C11_CurrencyIdChecked ==
    HandlerAnswered("goals.create") =>
        /\ tx.kind = "CreateGoal" =>
              body.currencyId \in {CURRENCY_IDS.USDC, CURRENCY_IDS.IDRX}
        /\ body.currencyId \notin {CURRENCY_IDS.USDC, CURRENCY_IDS.IDRX} =>
              tx = NoTx /\ res.status >= 400

\* a CreateGoal transaction carrying a currency id that has no currency config
\* was built; the request failed only afterwards, at getCurrencyConfig
C11_UnknownCurrencyBuilt ==
    /\ HandlerAnswered("goals.create")
    /\ body.currencyId = UnknownCurrency
    /\ tx.kind = "CreateGoal" /\ tx.fields.currencyId = UnknownCurrency
    /\ res.status = 500
    /\ reads[Len(reads)].account = "currencyConfig"

(* C12: POST /goals/create builds a CreateGoal transaction only when
   deadline >= now + 7776000 seconds (now in whole seconds): a smaller deadline
   is answered 400 with no transaction built, and a deadline equal to now + 90
   days is not refused as too early and is built when the ledger reads succeed. *)
C12_DeadlineNinetyDays ==
    HandlerAnswered("goals.create") =>
        LET minDeadline == (now \div 1000) + 7776000 IN
        /\ tx.kind = "CreateGoal" => body.deadline >= minDeadline
        /\ body.deadline < minDeadline => tx = NoTx /\ res.status >= 400
        /\ (body.deadline < minDeadline /\ body.deadline # 0 /\ reads # <<>>
                /\ reads[1].st = "ok" /\ reads[1].v.activeGoals < 5) =>
              res.status = 400 /\ res.error = "Invalid deadline"
        /\ body.deadline >= minDeadline => res.error # "Invalid deadline"
        /\ (res.status = 400 /\ res.error = "Invalid deadline") =>
              body.deadline < minDeadline

\* a goal whose deadline is exactly 90 days ahead was built
C12_BuiltAtEdge ==
    /\ HandlerAnswered("goals.create") /\ res.status = 200
    /\ body.deadline = (now \div 1000) + 7776000
    /\ tx.kind = "CreateGoal" /\ tx.fields.deadline = body.deadline

\* ---------------------------------------------------------------------------
\* Deposit

\* the handler fetched the goal account of a well-formed wallet first
GoalWasRead ==
    /\ Len(reads) >= 1
    /\ reads[1].account = "goal" /\ PublicKeyOk(reads[1].wallet)

(* C13: POST /transactions/deposit builds a Deposit transaction only when the
   goal exists on chain, is 'active' and has the requested currency id; the
   checks run in that order and the first failure decides: an absent goal gives
   404, a goal that is not active gives 400 'Goal not active' (whatever its
   currency), an active goal of another currency gives 400 'Currency mismatch'. *)
C13_DepositGoalChecks ==
    HandlerAnswered("tx.deposit") =>
        /\ tx.kind = "Deposit" =>
              /\ GoalWasRead /\ reads[1].st = "ok"
              /\ reads[1].v.status = "active"
              /\ reads[1].v.currencyId = body.currencyId
        /\ (GoalWasRead /\ reads[1].st = "missing") =>
              res.status = 404 /\ res.error = "Goal not found" /\ tx = NoTx
        /\ (GoalWasRead /\ reads[1].st = "ok" /\ reads[1].v.status # "active") =>
              res.status = 400 /\ res.error = "Goal not active" /\ tx = NoTx
        /\ (GoalWasRead /\ reads[1].st = "ok" /\ reads[1].v.status = "active"
                /\ reads[1].v.currencyId # body.currencyId) =>
              res.status = 400 /\ res.error = "Currency mismatch" /\ tx = NoTx

\* a completed goal of another currency: the status check answered first
C13_NotActiveDecides ==
    /\ HandlerAnswered("tx.deposit") /\ GoalWasRead
    /\ reads[1].st = "ok" /\ reads[1].v.status = "completed"
    /\ reads[1].v.currencyId # body.currencyId
    /\ res.status = 400 /\ res.error = "Goal not active" /\ tx = NoTx

\* the amount a body carries is a decimal integer from 1 to 2^64 - 1
PositiveU64(a) ==
    /\ a.type \in {"number", "string"}
    /\ AllDigits(a.text)
    /\ BigLeq(Big(1), BigOfDigits(a.text))
    /\ BigLeq(BigOfDigits(a.text), BigSub(ShiftLeft(Big(1), 64), Big(1)))

(* C14: POST /transactions/deposit builds a Deposit transaction only when the
   amount, sent as a number or as a decimal string, is an integer with
   1 <= amount <= 18446744073709551615; a zero, negative, non-integer or larger
   amount is answered 400 before any ledger read, with nothing built. *)
C14_PositiveU64Amount ==
    HandlerAnswered("tx.deposit") =>
        /\ tx.kind = "Deposit" =>
              /\ PositiveU64(body.amount)
              /\ BigLeq(Big(1), tx.fields.amount)
        /\ (body.amount.type # "undefined" /\ ~PositiveU64(body.amount)) =>
              res.status = 400 /\ reads = <<>> /\ tx = NoTx

\* the amount "0" sent as a string passed every check: a Deposit of 0 was built
C14_ZeroDepositBuilt ==
    /\ HandlerAnswered("tx.deposit") /\ res.status = 200
    /\ body.amount = StringAmount(<<"0">>)
    /\ tx.kind = "Deposit" /\ tx.fields.amount = Big(0)

\* ---------------------------------------------------------------------------
\* Withdrawal

WithdrawalKinds == {"WithdrawEarly", "WithdrawCompleted"}

(* C15: POST /transactions/withdraw builds a withdrawal transaction only when
   the goal exists on chain and its fetched current amount is nonzero: an absent
   goal gives 404 and a goal with current amount 0 gives 400, whatever its
   accrued interest, with no transaction built in either case. *)
C15_WithdrawNeedsFunds ==
    HandlerAnswered("tx.withdraw") =>
        /\ tx.kind \in WithdrawalKinds =>
              /\ GoalWasRead /\ reads[1].st = "ok"
              /\ reads[1].v.currentAmount # Big(0)
        /\ (GoalWasRead /\ reads[1].st = "missing") =>
              res.status = 404 /\ tx = NoTx
        /\ (GoalWasRead /\ reads[1].st = "ok" /\ reads[1].v.currentAmount = Big(0)) =>
              res.status = 400 /\ res.error = "No funds to withdraw" /\ tx = NoTx

\* a goal holding nothing but 50 of accrued interest was refused
C15_InterestOnlyRefused ==
    /\ HandlerAnswered("tx.withdraw") /\ GoalWasRead /\ reads[1].st = "ok"
    /\ reads[1].v.currentAmount = Big(0) /\ reads[1].v.accruedInterest = Big(50)
    /\ res.status = 400 /\ res.error = "No funds to withdraw" /\ tx = NoTx

\* ---------------------------------------------------------------------------
\* Faucet

\* the positions of the FaucetAccount fetch in the request's read log
UserFaucetReads == {i \in 1..Len(reads) : reads[i].account = "userFaucet"}

\* the faucet is enabled and the handler fetched the wallet's FaucetAccount
FaucetAccountFetched(st) ==
    /\ HandlerAnswered("tx.faucet") /\ faucetEnabled
    /\ \E i \in UserFaucetReads : reads[i].st = st /\ PublicKeyOk(reads[i].wallet)

FetchedFaucetAccount == reads[CHOOSE i \in UserFaucetReads : TRUE].v

\* the builder was handed well-formed keys and fetched a blockhash
BlockhashFetched ==
    \E i \in 1..Len(reads) : reads[i].account = "blockhash" /\ reads[i].st = "ok"

\* no read of the request failed
ClaimReadsSucceeded == \A i \in 1..Len(reads) : reads[i].st # "error"

(* C16: with the faucet enabled and a FaucetAccount present, a claim is answered
   429 when the last claim was less than 3600 seconds ago, 429 when the wallet
   has 10 claims today however long ago the last one was, and is not rate
   limited when the last claim was at least 3600 seconds ago with fewer than 10
   claims today: the ClaimFaucet transaction is then built (once the builder
   has its blockhash). *)
C16_FaucetRateLimit ==
    FaucetAccountFetched("ok") =>
        LET sinceLast == (now \div 1000) - FetchedFaucetAccount.lastClaimTime
            today == FetchedFaucetAccount.claimsToday
        IN /\ sinceLast < 3600 => res.status = 429 /\ tx = NoTx
           /\ today >= 10 => res.status = 429 /\ tx = NoTx
           /\ (sinceLast >= 3600 /\ today < 10) =>
                 /\ res.status \in {200, 500}
                 /\ BlockhashFetched => tx.kind = "ClaimFaucet"
                 /\ (BlockhashFetched /\ ClaimReadsSucceeded) => res.status = 200

\* last claim 61 minutes ago, 9 claims today: the claim was served
C16_ServedAfterCooldown ==
    /\ FaucetAccountFetched("ok")
    /\ FetchedFaucetAccount.lastClaimTime = (now \div 1000) - 3660
    /\ FetchedFaucetAccount.claimsToday = 9
    /\ res.status = 200 /\ tx.kind = "ClaimFaucet"

\* the claim was refused by the cooldown or by the daily limit
RateLimited ==
    /\ FaucetAccountFetched("ok")
    /\ \/ (now \div 1000) - FetchedFaucetAccount.lastClaimTime < 3600
       \/ FetchedFaucetAccount.claimsToday >= 10

(* C17: with the faucet not enabled no ClaimFaucet transaction is ever built,
   whatever the request; with it enabled and no FaucetAccount for the wallet,
   neither the cooldown nor the daily limit applies and the transaction is built
   (once the builder has its blockhash); a claim is rate limited exactly when
   the FaucetAccount fetched in this request fails the cooldown or the limit at
   the current time, whether or not an earlier request was served. *)
C17_FaucetGate ==
    /\ ~faucetEnabled =>
          /\ tx.kind # "ClaimFaucet" /\ faucetServed = Undefined
          /\ HandlerAnswered("tx.faucet") => res.status \in {400, 403, 500}
    /\ FaucetAccountFetched("missing") =>
          /\ res.status \in {200, 500}
          /\ BlockhashFetched => tx.kind = "ClaimFaucet"
          /\ (BlockhashFetched /\ ClaimReadsSucceeded) => res.status = 200
    /\ (HandlerAnswered("tx.faucet") /\ faucetEnabled) =>
          /\ res.status = 429 <=> RateLimited
          /\ tx.kind = "ClaimFaucet" => UserFaucetReads # {}

\* a wallet that was handed a ClaimFaucet transaction by an earlier request and
\* still has no FaucetAccount on chain is served again
C17_ServedAgainWithoutAccount ==
    /\ FaucetAccountFetched("missing")
    /\ faucetServed = body.walletAddress
    /\ res.status = 200 /\ tx.kind = "ClaimFaucet" /\ tx.user = faucetServed

\* ---------------------------------------------------------------------------
\* Fail fast

\* a handler answered with an error after a builder had returned a transaction
FailedAfterBuild ==
    /\ pc = "done" /\ mw.next
    /\ tx.kind # "none" /\ res.status # 200

(* C18: in every transaction-building endpoint, a request for which a
   transaction has been built does not afterwards end in an error caused by its
   input or by a business rule: if it ends in an error at all, an RPC call
   failed (the last read of the request is a failed read, not a missing
   account). *)
C18_FailBeforeBuild ==
    FailedAfterBuild => reads[Len(reads)].st = "error"

\* a CreateGoal transaction was built for a currency id that has no currency
\* config; the missing account then ended the request with an error
C18_BuiltThenMissingConfig ==
    /\ FailedAfterBuild /\ req.route = "goals.create"
    /\ tx.kind = "CreateGoal" /\ tx.fields.currencyId \notin {0, 1}
    /\ reads[Len(reads)].account = "currencyConfig"
    /\ reads[Len(reads)].st = "missing"

\* ---------------------------------------------------------------------------
\* Concurrent goal creation

\* request i was handed a CreateGoal transaction
BuiltCreate(i) == inflight[i].tx.kind = "CreateGoal"

\* requests i and j of one wallet were both built before any CreateGoal
\* transaction was confirmed
BuiltBeforeConfirm(i, j) ==
    /\ i # j /\ BuiltCreate(i) /\ BuiltCreate(j)
    /\ inflight[i].tx.user = inflight[j].tx.user
    /\ inflight[i].confirmedBefore = {} /\ inflight[j].confirmedBefore = {}

(* C19: the goal index of a CreateGoal transaction is the totalGoalsCreated the
   builder read; two concurrent create requests of one wallet that are both
   built before either transaction is confirmed carry the same goal index and
   the same goal address, they are never both accepted by the ledger, and once
   one is accepted the other fails when it is submitted. *)
C19_GoalIndexRace ==
    /\ \A i \in RaceRequests :
        BuiltCreate(i) =>
            /\ inflight[i].reads[2].account = "user" /\ inflight[i].reads[2].st = "ok"
            /\ inflight[i].tx.fields.goalIndex =
                    inflight[i].reads[2].v.totalGoalsCreated
    /\ \A i, j \in RaceRequests :
        BuiltBeforeConfirm(i, j) =>
            /\ inflight[i].tx.fields.goalIndex = inflight[j].tx.fields.goalIndex
            /\ inflight[i].tx.fields.goalAccount = inflight[j].tx.fields.goalAccount
            /\ ~(inflight[i].pc = "accepted" /\ inflight[j].pc = "accepted")
            /\ inflight[i].pc = "accepted" => inflight[j].pc \in {"done", "failed"}

\* two requests of one wallet got the same index; the ledger accepted the first
\* submitted and the second failed
C19_OneAcceptedOneFailed ==
    \E i, j \in RaceRequests :
        /\ BuiltBeforeConfirm(i, j)
        /\ inflight[i].tx.fields.goalIndex = inflight[j].tx.fields.goalIndex
        /\ inflight[i].pc = "accepted" /\ inflight[j].pc = "failed"

\* ---------------------------------------------------------------------------
\* Absent accounts

\* the last read of the request was made by the handler itself (not by a
\* transaction builder), for a well-formed address, and found no account
AbsentForHandler ==
    /\ pc = "done" /\ mw.next /\ reads # <<>>
    /\ LET n == Len(reads)
           last == reads[n]
       IN /\ last.st = "missing"
          /\ last.wallet = Undefined \/ PublicKeyOk(last.wallet)
          /\ \/ n = 1
             \/ req.route = "goals.create" /\ last.account = "currencyConfig"
             \/ req.route = "tx.faucet"
                    /\ last.account \in {"currencyConfig", "userFaucet", "faucetConfig"}
          /\ req.route = "tx.faucet" => body.tokenMint # BadAddress

(* C20: an account read that finds no account on chain gives the handler an
   absent result, not an error: a request whose handler's read found no account
   (global state, currency config, user, goal, faucet config, user faucet
   account) does not end in 500 because of it. *)
C20_AbsentIsNotAnError ==
    AbsentForHandler => res.status # 500

\* a faucet claim by currency id: no CurrencyConfig account exists, and the
\* lookup ended the request with 500
C20_MissingConfigIsAnError ==
    /\ AbsentForHandler /\ req.route = "tx.faucet"
    /\ reads = <<ReadOf("currencyConfig", Undefined, Missing(0))>>
    /\ res.status = 500 /\ tx = NoTx

-----------------------------------------------------------------------------
(* Read failures *)

\* two entries of the read log are calls for the same account
SameCall(r1, r2) ==
    /\ r1.account = r2.account
    /\ r1.wallet = r2.wallet
    /\ r1.account = "currencyConfig" => r1.v.currencyId = r2.v.currencyId

-----------------------------------------------------------------------------
(* The relational cache is optional *)

\* a request for one of the five transaction builders is being served
BuildingRequest ==
    pc \in {"received", "authed", "routed", "done"} /\ req.route \in PostRoutes

\* C22: no transaction-building request sends a statement to the database, so its
\* outcome is the same with the cache reachable or not; start-up ends listening
\* exactly when the blockchain service initialized, whatever the database test
\* returned; GET /health answers 200 exactly when the blockchain service is
\* initialized and 503 otherwise, whatever the database state
C22_CacheIsOptional ==
    /\ BuildingRequest => dbLog = <<>>
    /\ server # "starting" => (server = "listening" <=> initialized)
    /\ pc = "done" /\ req.route = "health" =>
        /\ res.status = 200 <=> initialized
        /\ res.status \in {200, 503}

\* C22: the process started although the database test failed, the database is
\* still away, and a deposit request is answered 200 with its transaction
C22_DepositBuiltWithoutDatabase ==
    /\ server = "listening" /\ ~dbConnected /\ ~dbReachable
    /\ pc = "done" /\ req.route = "tx.deposit"
    /\ res.status = 200 /\ tx.kind = "Deposit"

-----------------------------------------------------------------------------
(* db.transaction *)

\* the call has returned to its caller or thrown
TxnEnded(c) == c.pc \in {"returned", "threw"}

\* C23: a call of db.transaction that returns has sent BEGIN, the callback's
\* statement and COMMIT; when BEGIN, the callback or COMMIT failed, ROLLBACK was
\* sent last and the error thrown is the one that failed the step; a client
\* obtained from the pool is released exactly once by the time the call ends and
\* never more than once
C23_TransactionDiscipline ==
    \A i \in TransactionCalls :
        LET c == dbTransactions[i] IN
        /\ c.released <= c.clients
        /\ TxnEnded(c) =>
            /\ c.released = c.clients
            /\ c.pc = "returned" => c.log = <<"BEGIN", "INSERT", "COMMIT">>
            /\ c.error # "" =>
                /\ c.log[Len(c.log)] = "ROLLBACK"
                /\ c.pc = "threw"
                /\ c.thrown = c.error

\* C23: the callback threw, ROLLBACK failed as well, and the call ended with the
\* error of ROLLBACK, its client released once
C23_RollbackErrorThrown ==
    \E i \in TransactionCalls :
        LET c == dbTransactions[i] IN
        /\ c.pc = "threw"
        /\ c.error = "callback threw"
        /\ c.thrown = "ROLLBACK failed"
        /\ c.log = <<"BEGIN", "INSERT", "ROLLBACK">>
        /\ c.clients = 1 /\ c.released = 1

-----------------------------------------------------------------------------
(* Cache upserts *)

\* a table with the sync timestamp set aside
WithoutSyncTime(rows) == {[r EXCEPT !.last_synced_at = 0] : r \in rows}

\* a table with the sync timestamp and the trigger's updated_at set aside
WithoutTimes(rows) == {[r EXCEPT !.last_synced_at = 0, !.updated_at = 0] : r \in rows}

\* the rows of the key of the record cached last
CachedRows ==
    IF lastCached.op = "cacheUser"
        THEN {r \in usersTable : r.wallet_address = lastCached.data.walletAddress}
    ELSE IF lastCached.op = "cacheGoal"
        THEN {r \in goalsTable : r.goal_account_pda = lastCached.data.goalAccountPDA}
    ELSE {}

\* one row holds the key of the record cached last, with the mutable columns at
\* the values of that record
LastWriteWins ==
    /\ lastCached.op # "none" => Cardinality(CachedRows) = 1
    /\ \A r \in CachedRows :
        IF lastCached.op = "cacheUser"
            THEN r.user_account_pda = lastCached.data.userAccountPDA
        ELSE /\ r.current_amount = lastCached.data.currentAmount
             /\ r.status = lastCached.data.status
             /\ r.principal = lastCached.data.principal
             /\ r.accrued_interest = lastCached.data.accruedInterest

\* the call of this step cached the record the call before it cached
CachedAgain == dbNow' # dbNow /\ lastCached' = lastCached /\ lastCached.op # "none"

\* C24 as stated: caching a record again leaves both tables as they were but for
\* last_synced_at, with one row for the key; after caching a record the mutable
\* columns of its row hold the values of that record
C24_IdempotentUpsert ==
    [][/\ LastWriteWins'
       /\ CachedAgain =>
            /\ WithoutSyncTime(usersTable') = WithoutSyncTime(usersTable)
            /\ WithoutSyncTime(goalsTable') = WithoutSyncTime(goalsTable)]_vars

\* C24 amended: caching a record again leaves both tables as they were but for
\* last_synced_at and updated_at, with one row for the key; after caching a record
\* the mutable columns of its row hold the values of that record
C24_IdempotentUpsertButTimes ==
    [][/\ LastWriteWins'
       /\ CachedAgain =>
            /\ WithoutTimes(usersTable') = WithoutTimes(usersTable)
            /\ WithoutTimes(goalsTable') = WithoutTimes(goalsTable)]_vars

\* C24: a goal was cached as active, then as completed under another name: its
\* one row keeps the first name and holds the completed amounts, synced later than
\* it was created
C24_SecondVersionCached ==
    /\ lastCached.op = "cacheGoal"
    /\ lastCached.data.status = "completed"
    /\ \E r \in goalsTable :
        /\ r.goal_account_pda = lastCached.data.goalAccountPDA
        /\ r.name # lastCached.data.name
        /\ r.status = "completed" /\ r.current_amount = 100
        /\ r.created_at < r.last_synced_at
        /\ r.updated_at = r.last_synced_at

-----------------------------------------------------------------------------
(* Error responses *)

\* C25: every error response of the middleware and of the route handlers carries
\* an error kind and a human-readable message
C25_ErrorKindAndMessage ==
    pc = "done" /\ res.status >= 400 =>
        /\ res.error # ""
        /\ res.message # Undefined

\* C25: in simplified mode a request with a timestamp that is no number is
\* answered 401 'Invalid timestamp' by the middleware, with no message
C25_InvalidTimestampWithoutMessage ==
    /\ pc = "done" /\ simpleAuth /\ ~mw.next
    /\ hdr.timestamp = Some(<<"a", "b", "c">>)
    /\ res.status = 401 /\ res.error = "Invalid timestamp"
    /\ res.message = Undefined

-----------------------------------------------------------------------------
(* Outcomes of the middleware *)

\* C26: in both modes verifyWalletSignature ends in exactly one of a 401
\* response, a 403 response, or next() with the authenticated wallet attached,
\* and in no other status; a signature that decodes but has the wrong length is
\* answered 401; after a response the request is not passed on
C26_ThreeOutcomes ==
    MiddlewareAnswered =>
        /\ \/ mw.next /\ mw.status = 0 /\ authenticatedWallet = hdr.wallet
           \/ ~mw.next /\ mw.status \in {401, 403} /\ authenticatedWallet = Undefined
        /\ ~mw.next => res.status = mw.status /\ tx = NoTx /\ reads = <<>>

\* C26: in full mode a POST for wallet A with fresh headers and a base-58
\* signature of 10 bytes ends in the catch of the middleware: 500
\* 'Authentication failed', which is none of the three outcomes
C26_MalformedSignatureAnswered500 ==
    /\ ~simpleAuth /\ pc = "done" /\ ~mw.next
    /\ req.route \in PostRoutes /\ req.bodyWallet = hdr.wallet
    /\ Bs58DecodeOk(hdr.signature) /\ NaclThrows(hdr.signature)
    /\ res.status = 500 /\ res.error = "Authentication failed"

-----------------------------------------------------------------------------
(* Replay *)

\* C27: in full mode, headers (wallet, signature, message) that were passed on
\* at time t are not passed on when presented again more than five minutes
\* after t, whatever X-Timestamp comes with them
C27_NoReplayAfterWindow ==
    pc = "authed" =>
        \A c \in SeenPassed(hdr) : now - c.at <= fiveMinutes

\* C27: a signature passed on six minutes ago is passed on again, presented with
\* the current time as its X-Timestamp
C27_ReplayedWithFreshTimestamp ==
    /\ pc = "authed" /\ mw.next /\ ~simpleAuth
    /\ hdr.timestamp = Some(DecStr(now))
    /\ \E c \in SeenPassed(hdr) : now - c.at = 2 * Tick

-----------------------------------------------------------------------------
(* One create-goal request among ledger updates *)

\* C28: within one create-goal request the goal index and goal address come
\* from the UserAccount state that passed the handler's checks: under any
\* interleaving with ledger updates of the wallet, no CreateGoal transaction is
\* built from a user state with 5 or more active goals, and the goal index is
\* the totalGoalsCreated of the state the handler validated
C28_OneSnapshot ==
    \A i \in RaceRequests :
        BuiltCreate(i) =>
            LET validated == inflight[i].userAccount.v
                used == inflight[i].reads[2].v
                t == inflight[i].tx
            IN /\ used.activeGoals < 5
               /\ t.fields.goalIndex = validated.totalGoalsCreated
               /\ t.fields.goalAccount =
                    getGoalAccountPDA(t.user, validated.totalGoalsCreated)

\* C28: the handler validated a state with 4 active goals; another request of
\* the wallet was accepted by the ledger before buildCreateGoalTx read the
\* account again, and the transaction was built from the state with 5 active
\* goals and carries that state's index
C28_BuiltFromLaterState ==
    \E i \in RaceRequests :
        /\ BuiltCreate(i) /\ inflight[i].res.status = 200
        /\ inflight[i].userAccount.v.activeGoals = 4
        /\ inflight[i].reads[2].v.activeGoals = 5
        /\ inflight[i].tx.fields.goalIndex = inflight[i].reads[2].v.totalGoalsCreated
        /\ inflight[i].tx.fields.goalIndex # inflight[i].userAccount.v.totalGoalsCreated
        /\ inflight[i].confirmedBefore # {}

-----------------------------------------------------------------------------
(* Withdrawals and the goal state machine *)

\* the goal account the handler of the request fetched first
FetchedGoal == reads[1].v

WithdrawalBuilt == tx.kind \in {"WithdrawEarly", "WithdrawCompleted"}

\* C29: POST /transactions/withdraw builds a withdrawal transaction only for a
\* goal whose fetched status is 'active'; for a goal fetched as 'completed' or
\* 'withdrawn' no WithdrawEarly or WithdrawCompleted transaction is built
C29_WithdrawOnlyActive ==
    HandlerAnswered("tx.withdraw") /\ reads # <<>> /\ reads[1].st = "ok" =>
        /\ WithdrawalBuilt => FetchedGoal.status = "active"
        /\ FetchedGoal.status \in {"completed", "withdrawn"} => tx = NoTx

\* C29: a goal fetched as 'completed' that still holds funds, past its
\* deadline: the request is answered 200 with a WithdrawCompleted transaction
C29_CompletedGoalWithdrawnAgain ==
    /\ HandlerAnswered("tx.withdraw") /\ res.status = 200
    /\ reads[1].account = "goal" /\ reads[1].st = "ok"
    /\ FetchedGoal.status = "completed"
    /\ FetchedGoal.deadline < NowSeconds(now)
    /\ tx.kind = "WithdrawCompleted"

\* what POST /transactions/withdraw with no early flag does for this goal, at
\* this time, when every later read succeeds and finds the goal unchanged
WithdrawNow(wallet, goal, t) ==
    transactionsWithdraw([walletAddress |-> wallet, goalIndex |-> 0, early |-> Undefined],
                         goal, goal, Fetched(0), Fetched(0), Fetched(0), t)

\* C30: for the same goal state and the same time, canWithdrawWithoutPenalty of
\* GET /goals/:address/:goalIndex is true exactly when POST /transactions/withdraw
\* with no early flag builds WithdrawCompleted, the instant deadline = now included
C30_FlagAgreesWithWithdraw ==
    HandlerAnswered("goals.get") /\ res.status = 200 =>
        (res.info.canWithdrawWithoutPenalty
            <=> WithdrawNow(req.address, Fetched(FetchedGoal), now).tx.kind
                    = "WithdrawCompleted")

\* C30: a funded goal whose deadline is the current second is reported as not
\* withdrawable without penalty, while a withdrawal of it without the early
\* flag is answered with the no-penalty WithdrawCompleted transaction
C30_AtDeadlineFlagFalseButCompleted ==
    /\ HandlerAnswered("goals.get") /\ res.status = 200
    /\ FetchedGoal.deadline = NowSeconds(now)
    /\ ~NoFunds(FetchedGoal)
    /\ ~res.info.canWithdrawWithoutPenalty
    /\ WithdrawNow(req.address, Fetched(FetchedGoal), now).res.status = 200
    /\ WithdrawNow(req.address, Fetched(FetchedGoal), now).tx.kind = "WithdrawCompleted"

====
